---------------------------- MODULE Spec2Model ----------------------------
(***************************************************************************)
(* Akash, a layer-4 load balancer: backend selection (core/core.go), the  *)
(* health setter (core/health.go), the byte relay (core/proxy.go and the  *)
(* copyFunc of main.go) and the accept loop (main.go, and the earlier     *)
(* accept loop kept in unnamed/part_003).                                 *)
(***************************************************************************)
EXTENDS Integers, Sequences, FiniteSets, TLC

(* ------------------------------ bounds -------------------------------- *)
MaxCalls == 3            \* GetNextBackend calls in one behaviour
MaxWeightedCalls == 8    \* the same, in the weighted round robin runs
MaxHealthChanges == 2    \* health-flag transitions in one behaviour
MaxIndex == 7            \* cap on the rotation counter lb.Index

(* ------------------------- program constants -------------------------- *)
RoundRobin == 0
LeastConnections == 1
IPHash == 2
WeightedRoundRobin == 3
Algorithms == {RoundRobin, LeastConnections, IPHash, WeightedRoundRobin}

MaxInt32 == 2147483647
MinInt32 == (-2147483647) - 1

Nil == -1                \* the nil *Backend

(* ---------------------------- byte strings ---------------------------- *)
(* Strings are sequences of byte codes.                                    *)
Colon == 58
LBracket == 91
RBracket == 93

IndexByte(s, c) ==
    IF \E i \in 1..Len(s) : s[i] = c
    THEN CHOOSE i \in 1..Len(s) : s[i] = c /\ \A j \in 1..(i - 1) : s[j] # c
    ELSE 0

LastIndexByte(s, c) ==
    IF \E i \in 1..Len(s) : s[i] = c
    THEN CHOOSE i \in 1..Len(s) : s[i] = c /\ \A j \in (i + 1)..Len(s) : s[j] # c
    ELSE 0

(* net.JoinHostPort: what RemoteAddr().String() yields for a TCP peer.     *)
JoinHostPort(host, port) ==
    IF IndexByte(host, Colon) > 0
    THEN <<LBracket>> \o host \o <<RBracket, Colon>> \o port
    ELSE host \o <<Colon>> \o port

(* net.SplitHostPort; positions are 1-based, err is TRUE on any addrErr.   *)
SplitHostPort(hostport) ==
    LET i == LastIndexByte(hostport, Colon)
        bad == [host |-> <<>>, err |-> TRUE]
    IN  IF i = 0 THEN bad
        ELSE IF hostport[1] = LBracket
        THEN LET end == IndexByte(hostport, RBracket)
             IN  IF end = 0 THEN bad
                 ELSE IF end = Len(hostport) THEN bad
                 ELSE IF end + 1 # i THEN bad
                 ELSE LET host == SubSeq(hostport, 2, end - 1)
                      IN  IF IndexByte(SubSeq(hostport, 2, Len(hostport)), LBracket) > 0
                          THEN bad
                          ELSE IF IndexByte(SubSeq(hostport, end + 1, Len(hostport)), RBracket) > 0
                          THEN bad
                          ELSE [host |-> host, err |-> FALSE]
        ELSE LET host == SubSeq(hostport, 1, i - 1)
             IN  IF IndexByte(host, Colon) > 0 THEN bad
                 ELSE IF IndexByte(hostport, LBracket) > 0 THEN bad
                 ELSE IF IndexByte(hostport, RBracket) > 0 THEN bad
                 ELSE [host |-> host, err |-> FALSE]

(* ------------------------- FNV-1a, 32 bits ---------------------------- *)
(* A 32-bit word is kept as two 16-bit halves, so that no intermediate     *)
(* value leaves the range of the checker's integers.                       *)
RECURSIVE Xor8(_, _, _)
Xor8(a, b, bits) ==
    IF bits = 0 THEN 0
    ELSE ((a + b) % 2) + 2 * Xor8(a \div 2, b \div 2, bits - 1)

FnvOffsetHi == 33052     \* 0x811C
FnvOffsetLo == 40389     \* 0x9DC5
FnvPrimeLo == 403        \* 0x0193; the prime is 2^24 + 0x0193

FnvStep(h, byte) ==
    LET lo1 == (h.lo \div 256) * 256 + Xor8(h.lo % 256, byte, 8)
        p   == lo1 * FnvPrimeLo
    IN  [hi |-> (h.hi * FnvPrimeLo + (p \div 65536) + (lo1 % 256) * 256) % 65536,
         lo |-> p % 65536]

RECURSIVE Fnv32a(_, _)
Fnv32a(h, s) ==
    IF s = <<>> THEN h ELSE Fnv32a(FnvStep(h, Head(s)), Tail(s))

Sum32(s) == Fnv32a([hi |-> FnvOffsetHi, lo |-> FnvOffsetLo], s)

(* int(hashVal) % n, for a 64-bit int: the value is non-negative.          *)
HashMod(h, n) == ((h.hi * (65536 % n)) + h.lo) % n

(* ------------------------- 32-bit arithmetic -------------------------- *)
(* atomic.AddInt32(&x, 1): wraps from MaxInt32 to MinInt32.                *)
Int32Inc(x) == IF x = MaxInt32 THEN MinInt32 ELSE x + 1
Int32Dec(x) == IF x = MinInt32 THEN MaxInt32 ELSE x - 1

(* Go's % truncates toward zero: the remainder has the sign of a.          *)
GoMod(a, n) ==
    IF a >= 0 THEN a % n
    ELSE IF a % n = 0 THEN 0 ELSE (a % n) - n


(* ----------------------------- the state ------------------------------ *)
VARIABLES
    lb,          \* the LoadBalancer: Backends, Algo, ConnectionCount, Index,
                 \* BackendCounts, BackendFails, PathRoutes
    last,        \* history: the latest GetNextBackend call: its result and
                 \* the backends that were healthy when it was made
    calls,       \* history: number of GetNextBackend calls so far
    picks,       \* history: the backends returned since the health flags
                 \* last changed
    pending,     \* per returned backend (Nil: failed calls), the number of
                 \* release callbacks not yet invoked
    healthGen,   \* history: number of health-flag transitions so far
    hashSeen,    \* history: per client host, the indices IP hash returned
                 \* for it and the client ports it was called with
    scan,        \* the least-connections scan in progress, statement by
                 \* statement: pc, i, minIdx, minConn and the counts read
    lcPick,      \* history: the latest least-connections increment
    relMid,      \* release callbacks between their two statements
    relay,       \* one relay direction: its position, the source stream,
                 \* the destination connection and its counters
    probed,      \* history: the latest health probe the accept loop
                 \* specification made: backend, result, flag and failure
                 \* counter before it
    build,       \* which accept loop runs: "main" (main.go) or "part_003"
    config,      \* lb.Config: MaxConnections
    acc,         \* the accept loop goroutine: pc, current client, backend
    conn,        \* per accepted client: how far its connection got
    wg,          \* the WaitGroup counter
    metrics,     \* the gauges and counters of package metrics
    tracked,     \* the activeConns set of main.go
    shuttingDown, \* the shuttingDown flag of main.go
    listenerOpen, \* FALSE once listener.Close() has run
    sd,          \* position of the main goroutine in the shutdown sequence
    fn,          \* one GetNextBackend call and its release, as a caller
                 \* sees them: the LoadBalancer before, the arguments, the
                 \* result
    rl,          \* a ReloadConfig call in progress: pc, the new config
    pf           \* one call of a function of the configuration: which one,
                 \* its argument and its result

selVars == <<last, calls, picks, healthGen, hashSeen>>
leastVars == <<scan, lcPick, relMid>>
relayVars == <<relay>>
dispVars == <<probed, build, config, acc, conn, wg, metrics, tracked,
              shuttingDown, listenerOpen, sd>>
callVars == <<fn, rl, pf>>
vars == <<lb, pending, selVars, leastVars, relayVars, dispVars, callVars>>

NumBackends(l) == Cardinality(DOMAIN l.Backends)

HasPrefix(s, prefix) ==
    Len(prefix) <= Len(s) /\ SubSeq(s, 1, Len(prefix)) = prefix

(* core.Backend as main builds it: healthy, zero counters.                 *)
NewBackend(weight) ==
    [Weight |-> weight, IsHealthy |-> TRUE, ActiveConnections |-> 0,
     CurrentWeight |-> 0]

(* The LoadBalancer literal of main.                                       *)
NewLoadBalancer(weights, algo) ==
    [Backends |-> [i \in DOMAIN weights |-> NewBackend(weights[i])],
     Algo |-> algo,
     ConnectionCount |-> 0,
     Index |-> -1,
     BackendCounts |-> [i \in DOMAIN weights |-> 0],
     BackendFails |-> [i \in DOMAIN weights |-> 0],
     PathRoutes |-> <<>>]

(* --------------------------- GetNextBackend --------------------------- *)
(* The path loop ranges over the map in an unspecified order, skips the    *)
(* matching prefixes whose backend is unhealthy and stops at the first     *)
(* healthy match: any healthy match can be the one it stops at.            *)
NoRoute == -1
HealthyMatches(l, path) ==
    {p \in DOMAIN l.PathRoutes :
        /\ HasPrefix(path, p)
        /\ l.Backends[l.PathRoutes[p]].IsHealthy}
RouteChoices(l, path) ==
    IF HealthyMatches(l, path) = {} THEN {NoRoute}
    ELSE {l.PathRoutes[p] : p \in HealthyMatches(l, path)}

IncActive(l, b) ==
    [l EXCEPT !.Backends[b].ActiveConnections = Int32Inc(@)]

PathLoop(l, route) ==
    IF route = NoRoute
    THEN [lb |-> l, backend |-> Nil, idx |-> 0]
    ELSE [lb |-> IncActive(l, route), backend |-> route, idx |-> route]

(* Mutants of the round robin loop: one advances lb.Index twice per        *)
(* attempt, one takes the candidate without reading its health flag.       *)
RECURSIVE RoundRobinLoopTwice(_, _, _)
RoundRobinLoopTwice(l, index, attempts) ==
    IF attempts >= NumBackends(l)
    THEN [Index |-> index, found |-> Nil]
    ELSE LET next == Int32Inc(Int32Inc(index))
             idx  == GoMod(next, NumBackends(l))
         IN  IF l.Backends[idx].IsHealthy
             THEN [Index |-> next, found |-> idx]
             ELSE RoundRobinLoopTwice(l, next, attempts + 1)

RoundRobinLoopNoHealth(l, index, attempts) ==
    [Index |-> Int32Inc(index),
     found |-> GoMod(Int32Inc(index), NumBackends(l))]

(* case RoundRobin (and default): up to len(Backends) attempts, each one   *)
(* advancing lb.Index. The idx of the loop is a new variable: the idx and  *)
(* the backend of the function are only written on a healthy candidate.    *)
RECURSIVE RoundRobinLoop(_, _, _)
RoundRobinLoop(l, index, attempts) ==
    IF attempts >= NumBackends(l)
    THEN [Index |-> index, found |-> Nil]
    ELSE LET next == Int32Inc(index)
             idx  == GoMod(next, NumBackends(l))
         IN  IF l.Backends[idx].IsHealthy
             THEN [Index |-> next, found |-> idx]
             ELSE RoundRobinLoop(l, next, attempts + 1)

CaseRoundRobin(st) ==
    LET r == RoundRobinLoop(st.lb, st.lb.Index, 0)
    IN  [lb |-> [st.lb EXCEPT !.Index = r.Index],
         backend |-> IF r.found # Nil THEN r.found ELSE st.backend,
         idx |-> st.idx]

(* Mutant of the least-connections scan: a later equal count replaces the  *)
(* minimum.                                                                *)
RECURSIVE LeastScanLastMin(_, _, _, _)
LeastScanLastMin(l, i, minIdx, minConn) ==
    IF i >= NumBackends(l) THEN minIdx
    ELSE LET currConn == l.Backends[i].ActiveConnections
         IN  IF currConn <= minConn
             THEN LeastScanLastMin(l, i + 1, i, currConn)
             ELSE LeastScanLastMin(l, i + 1, minIdx, minConn)

(* case LeastConnections: the scan keeps the first strict minimum.         *)
RECURSIVE LeastScan(_, _, _, _)
LeastScan(l, i, minIdx, minConn) ==
    IF i >= NumBackends(l) THEN minIdx
    ELSE LET currConn == l.Backends[i].ActiveConnections
         IN  IF currConn < minConn
             THEN LeastScan(l, i + 1, i, currConn)
             ELSE LeastScan(l, i + 1, minIdx, minConn)

CaseLeastConnections(st) ==
    LET minIdx == LeastScan(st.lb, 1, 0, st.lb.Backends[0].ActiveConnections)
    IN  [lb |-> IncActive(st.lb, minIdx), backend |-> minIdx, idx |-> minIdx]

(* Mutant of the host extraction: the port is hashed with the host.        *)
HashWholeAddress(clientAddress) == clientAddress

(* case IPHash: the host part of the client address, FNV-1a, mod N.        *)
HashHost(clientAddress) ==
    LET r == SplitHostPort(clientAddress)
    IN  IF r.err THEN clientAddress ELSE r.host

CaseIPHash(st, clientAddress) ==
    LET idx == HashMod(Sum32(HashHost(clientAddress)), NumBackends(st.lb))
    IN  [lb |-> st.lb, backend |-> idx, idx |-> idx]

(* case WeightedRoundRobin: smooth weighted round robin over the healthy   *)
(* backends; total sums the weight of every backend.                       *)
RECURSIVE TotalWeight(_, _)
TotalWeight(l, i) ==
    IF i >= NumBackends(l) THEN 0
    ELSE l.Backends[i].Weight + TotalWeight(l, i + 1)

RECURSIVE WeightedScan(_, _, _, _)
WeightedScan(l, i, maxWeight, selected) ==
    IF i >= NumBackends(l) THEN [lb |-> l, selected |-> selected]
    ELSE IF ~l.Backends[i].IsHealthy
    THEN WeightedScan(l, i + 1, maxWeight, selected)
    ELSE LET cw == l.Backends[i].CurrentWeight + l.Backends[i].Weight
             l2 == [l EXCEPT !.Backends[i].CurrentWeight = cw]
         IN  IF cw > maxWeight
             THEN WeightedScan(l2, i + 1, cw, i)
             ELSE WeightedScan(l2, i + 1, maxWeight, selected)

(* Mutant of the weighted case: the chosen backend's current weight is not *)
(* reduced by the total.                                                   *)
CaseWeightedNoReduce(st) ==
    LET r == WeightedScan(st.lb, 0, -1, Nil)
    IN  IF r.selected # Nil
        THEN [lb |-> r.lb, backend |-> r.selected, idx |-> r.selected]
        ELSE [lb |-> r.lb, backend |-> st.backend, idx |-> st.idx]

CaseWeightedRoundRobin(st) ==
    LET total == TotalWeight(st.lb, 0)
        r     == WeightedScan(st.lb, 0, -1, Nil)
    IN  IF r.selected # Nil
        THEN [lb |-> [r.lb EXCEPT !.Backends[r.selected].CurrentWeight = @ - total],
              backend |-> r.selected, idx |-> r.selected]
        ELSE [lb |-> r.lb, backend |-> st.backend, idx |-> st.idx]

AlgoSwitch(st, clientAddress) ==
    CASE st.lb.Algo = RoundRobin -> CaseRoundRobin(st)
      [] st.lb.Algo = LeastConnections -> CaseLeastConnections(st)
      [] st.lb.Algo = IPHash -> CaseIPHash(st, clientAddress)
      [] st.lb.Algo = WeightedRoundRobin -> CaseWeightedRoundRobin(st)
      [] OTHER -> CaseRoundRobin(st)

(* The whole call. The result carries the new LoadBalancer, the returned   *)
(* backend and index, and noop = TRUE when the returned release is the     *)
(* empty func(){}.                                                         *)
GetNextBackend(l, clientAddress, path, route) ==
    IF NumBackends(l) = 0
    THEN [lb |-> l, backend |-> Nil, idx |-> -1, noop |-> TRUE]
    ELSE LET st  == AlgoSwitch(PathLoop(l, route), clientAddress)
             l3  == [st.lb EXCEPT !.ConnectionCount = Int32Inc(@),
                                  !.BackendCounts[st.idx] = Int32Inc(@)]
         IN  IF st.backend = Nil
             THEN [lb |-> l3, backend |-> Nil, idx |-> -1, noop |-> TRUE]
             ELSE [lb |-> l3, backend |-> st.backend, idx |-> st.idx,
                   noop |-> FALSE]

(* The release closure returned with a backend.                            *)
release(l, backend) ==
    [l EXCEPT !.Backends[backend].ActiveConnections = Int32Dec(@),
              !.ConnectionCount = Int32Dec(@)]

(* Mutant of setBackendHealth: the failure counter is zeroed on every      *)
(* result.                                                                 *)
setBackendHealthAlwaysZero(l, index, healthy) ==
    [l EXCEPT !.Backends[index].IsHealthy = healthy,
              !.BackendFails[index] = 0]

(* setBackendHealth: the flag is stored; a healthy result also zeroes the  *)
(* backend's failure counter.                                              *)
setBackendHealth(l, index, healthy) ==
    [l EXCEPT !.Backends[index].IsHealthy = healthy,
              !.BackendFails[index] = IF healthy THEN 0 ELSE @]


(* ------------------- the selection specification ---------------------- *)
(* Sequential use of the LoadBalancer: GetNextBackend calls, calls of the  *)
(* returned release callbacks, and results of the health probes.           *)
WeightConfigs ==
    {<<1>>, <<3, 1>>, <<1, 3>>, <<0, 0>>, <<1, 1, 1>>, <<3, 1, 1>>}
ClientHosts == {<<50>>, <<58, 58, 49>>}               \* "2", "::1"
ClientPorts == {<<55>>, <<56>>}                      \* "7", "8"
RootPath == <<47>>                                   \* "/"

(* A declared weight list as the 0-based slice main builds from it.        *)
Slice(seq) == [i \in 0..(Len(seq) - 1) |-> seq[i + 1]]

HealthySet(l) == {i \in DOMAIN l.Backends : l.Backends[i].IsHealthy}

(* The parts of the state a specification does not use stay as they start. *)
NoScan == [pc |-> "idle", i |-> 0, minIdx |-> 0, minConn |-> 0,
           reads |-> <<>>, disturbed |-> FALSE]
NoPick == [made |-> FALSE, backend |-> Nil, reads |-> <<>>, atInc |-> <<>>,
           disturbed |-> FALSE]
LeastIdle == scan = NoScan /\ lcPick = NoPick /\ relMid = 0

NoConn == [data |-> <<>>, writeClosed |-> FALSE, readClosed |-> FALSE,
           closed |-> FALSE]
NoRelay == [kind |-> "none", pc |-> "done", srcOK |-> TRUE, dstOK |-> TRUE,
            stream |-> <<>>, end |-> "EOF", n |-> <<>>, err |-> "nil",
            read |-> <<>>, src |-> NoConn, dst |-> NoConn, finAt |-> -1,
            released |-> 0, fails |-> 0]
RelayIdle == relay = NoRelay

NoFn == [pc |-> "idle", n |-> 0, before |-> <<>>, path |-> <<>>,
         route |-> -1, backend |-> -1, idx |-> -1, noop |-> TRUE]
NoReload == [pc |-> "idle",
             cfg |-> [Algorithm |-> <<>>, Backends |-> <<>>,
                      MaxConnections |-> 0],
             old |-> <<>>, disturbed |-> FALSE]
NoPure == [op |-> "none", pc |-> "idle", arg |-> <<>>, res |-> <<>>]
CallIdle == fn = NoFn /\ rl = NoReload /\ pf = NoPure

NoAccept == [pc |-> "stopped", client |-> 0, backend |-> Nil, idx |-> -1]
NoProbe == [index |-> -1, healthy |-> TRUE, was |-> TRUE, failsBefore |-> 0]
DispatchIdle ==
    /\ probed = NoProbe
    /\ build = "none"
    /\ config = [MaxConnections |-> 0]
    /\ acc = NoAccept
    /\ conn = <<>>
    /\ wg = 0
    /\ metrics = [ActiveConns |-> 0, Served |-> 0, Fails |-> 0]
    /\ tracked = {}
    /\ shuttingDown = FALSE
    /\ listenerOpen = FALSE
    /\ sd = "none"

NoCall ==
    [made |-> FALSE, algo |-> RoundRobin, backend |-> Nil, idx |-> -1,
     noop |-> TRUE, healthy |-> {}]

ActiveOf(l) == [i \in DOMAIN l.Backends |-> l.Backends[i].ActiveConnections]

Init ==
    /\ \E weights \in WeightConfigs, algo \in Algorithms :
           /\ lb = NewLoadBalancer(Slice(weights), algo)
           /\ pending = [b \in (0..(Len(weights) - 1)) \cup {Nil} |-> 0]
           /\ last = NoCall
    /\ calls = 0
    /\ picks = <<>>
    /\ healthGen = 0
    /\ hashSeen = [h \in ClientHosts |-> [idx |-> {}, ports |-> {}]]
    /\ LeastIdle
    /\ RelayIdle
    /\ DispatchIdle
    /\ CallIdle

(* One GetNextBackend call by the client host:port, with the path main     *)
(* passes.                                                                 *)
GetNextBackendCall ==
    /\ lb.Index < MaxIndex
    /\ \E host \in ClientHosts, port \in ClientPorts :
       \E route \in RouteChoices(lb, RootPath) :
           LET r == GetNextBackend(lb, JoinHostPort(host, port), RootPath, route)
           IN  /\ lb' = r.lb
               /\ last' = [made |-> TRUE, algo |-> lb.Algo,
                           backend |-> r.backend, idx |-> r.idx,
                           noop |-> r.noop, healthy |-> HealthySet(lb)]
               /\ picks' = Append(picks, r.backend)
               /\ pending' = [pending EXCEPT ![r.backend] = @ + 1]
               /\ hashSeen' =
                      IF lb.Algo = IPHash
                      THEN [hashSeen EXCEPT ![host].idx = @ \cup {r.idx},
                                            ![host].ports = @ \cup {port}]
                      ELSE hashSeen
    /\ calls' = calls + 1
    /\ UNCHANGED <<healthGen, leastVars, relayVars, dispVars, callVars>>

(* A release callback not yet invoked is invoked: the closure of a call    *)
(* that returned backend b, or the empty func(){} of a failed call.        *)
Release ==
    /\ \E b \in DOMAIN pending :
           /\ pending[b] > 0
           /\ pending' = [pending EXCEPT ![b] = @ - 1]
           /\ lb' = IF b = Nil THEN lb ELSE release(lb, b)
    /\ UNCHANGED <<selVars, leastVars, relayVars, dispVars, callVars>>

(* A health probe of backend i ends and stores its result.                 *)
HealthProbe ==
    /\ \E i \in DOMAIN lb.Backends, healthy \in BOOLEAN :
           /\ lb.Backends[i].IsHealthy # healthy
           /\ healthGen < MaxHealthChanges
           /\ lb' = setBackendHealth(lb, i, healthy)
    /\ healthGen' = healthGen + 1
    /\ picks' = <<>>
    /\ UNCHANGED <<last, calls, pending, hashSeen, leastVars, relayVars, dispVars, callVars>>

Select == calls < MaxCalls /\ GetNextBackendCall

Next == Select \/ Release \/ HealthProbe

Spec == Init /\ [][Next]_vars

(* Weighted round robin over the weights 3 and 1, over a longer run.       *)
InitWeighted ==
    /\ \E weights \in {<<3, 1>>, <<1, 3>>} :
           /\ lb = NewLoadBalancer(Slice(weights), WeightedRoundRobin)
           /\ pending = [b \in (0..(Len(weights) - 1)) \cup {Nil} |-> 0]
    /\ last = NoCall
    /\ calls = 0
    /\ picks = <<>>
    /\ healthGen = 0
    /\ hashSeen = [h \in ClientHosts |-> [idx |-> {}, ports |-> {}]]
    /\ LeastIdle
    /\ RelayIdle
    /\ DispatchIdle
    /\ CallIdle

SelectWeighted == calls < MaxWeightedCalls /\ GetNextBackendCall

NextWeighted == SelectWeighted \/ Release \/ HealthProbe

SpecWeighted == InitWeighted /\ [][NextWeighted]_vars


(* ------------- least connections, statement by statement -------------- *)
(* The accept loop runs GetNextBackend under LeastConnections one          *)
(* statement at a time, while the release callbacks of earlier connections *)
(* run in their relay goroutines. Each count is read or written under its  *)
(* backend's own mutex: one step per locked section or atomic operation.   *)
MaxLeastCalls == 3       \* GetNextBackend calls in one behaviour

SelIdle ==
    /\ last = NoCall
    /\ calls = 0
    /\ picks = <<>>
    /\ healthGen = 0
    /\ hashSeen = [h \in ClientHosts |-> [idx |-> {}, ports |-> {}]]

InitLeast ==
    /\ \E weights \in WeightConfigs :
           /\ lb = NewLoadBalancer(Slice(weights), LeastConnections)
           /\ pending = [b \in (0..(Len(weights) - 1)) \cup {Nil} |-> 0]
    /\ SelIdle
    /\ LeastIdle
    /\ RelayIdle
    /\ DispatchIdle
    /\ CallIdle

(* Mutant of the comparison of the scan: an equal count replaces the       *)
(* minimum.                                                                *)
ScanReplacesOnEqual(currConn, minConn) == currConn <= minConn

(* if currConn < minConn                                                   *)
ScanReplaces(currConn, minConn) == currConn < minConn

(* minConn = lb.Backends[0].ActiveConnections, under Backends[0].mutex.    *)
LeastBegin ==
    /\ scan.pc = "idle"
    /\ calls < MaxLeastCalls
    /\ scan' = [pc |-> "scan", i |-> 1, minIdx |-> 0,
                minConn |-> lb.Backends[0].ActiveConnections,
                reads |-> <<lb.Backends[0].ActiveConnections>>,
                disturbed |-> FALSE]
    /\ calls' = calls + 1
    /\ UNCHANGED <<lb, pending, last, picks, healthGen, hashSeen, lcPick, relMid, callVars>>
    /\ UNCHANGED <<relayVars, dispVars, callVars>>

(* One iteration of the scan: currConn is read under Backends[i].mutex.    *)
LeastRead ==
    /\ scan.pc = "scan"
    /\ scan.i < NumBackends(lb)
    /\ LET currConn == lb.Backends[scan.i].ActiveConnections
           replace  == ScanReplaces(currConn, scan.minConn)
       IN  scan' = [scan EXCEPT
                       !.i = @ + 1,
                       !.minIdx = IF replace THEN scan.i ELSE @,
                       !.minConn = IF replace THEN currConn ELSE @,
                       !.reads = Append(@, currConn)]
    /\ UNCHANGED <<lb, pending, selVars, lcPick, relMid, relayVars, dispVars, callVars>>

(* backend.ActiveConnections++ on lb.Backends[minIdx], under its mutex.    *)
LeastIncrement ==
    /\ scan.pc = "scan"
    /\ scan.i >= NumBackends(lb)
    /\ lb' = IncActive(lb, scan.minIdx)
    /\ lcPick' = [made |-> TRUE, backend |-> scan.minIdx,
                  reads |-> Slice(scan.reads), atInc |-> ActiveOf(lb),
                  disturbed |-> scan.disturbed]
    /\ scan' = [scan EXCEPT !.pc = "count"]
    /\ UNCHANGED <<pending, selVars, relMid, relayVars, dispVars, callVars>>

(* The two atomic additions, and the return of backend, idx and release.   *)
LeastReturn ==
    /\ scan.pc = "count"
    /\ lb' = [lb EXCEPT !.ConnectionCount = Int32Inc(@),
                        !.BackendCounts[scan.minIdx] = Int32Inc(@)]
    /\ pending' = [pending EXCEPT ![scan.minIdx] = @ + 1]
    /\ scan' = NoScan
    /\ UNCHANGED <<selVars, lcPick, relMid, relayVars, dispVars, callVars>>

(* First statement of a release callback: backend.ActiveConnections--      *)
(* under the backend's mutex.                                              *)
LeastRelease ==
    /\ \E b \in DOMAIN lb.Backends :
           /\ pending[b] > 0
           /\ pending' = [pending EXCEPT ![b] = @ - 1]
           /\ lb' = [lb EXCEPT !.Backends[b].ActiveConnections = Int32Dec(@)]
    /\ relMid' = relMid + 1
    /\ scan' = IF scan.pc = "scan" THEN [scan EXCEPT !.disturbed = TRUE]
               ELSE scan
    /\ UNCHANGED <<selVars, lcPick, relayVars, dispVars, callVars>>

(* Second statement of a release callback: the atomic decrement of         *)
(* lb.ConnectionCount.                                                     *)
LeastReleaseCount ==
    /\ relMid > 0
    /\ relMid' = relMid - 1
    /\ lb' = [lb EXCEPT !.ConnectionCount = Int32Dec(@)]
    /\ UNCHANGED <<pending, selVars, scan, lcPick, relayVars, dispVars, callVars>>

NextLeast ==
    \/ LeastBegin
    \/ LeastRead
    \/ LeastIncrement
    \/ LeastReturn
    \/ LeastRelease
    \/ LeastReleaseCount

SpecLeast == InitLeast /\ [][NextLeast]_vars

(* --------------------------- one relay direction ---------------------- *)
(* core.Proxy(src, dst, pool, release, backend) and the copyFunc(dst, src) *)
(* of main, one statement at a time. The source delivers a sequence of     *)
(* chunks and then ends with io.EOF or with another error; a Write to the  *)
(* destination may fail. srcOK and dstOK are the results of the type       *)
(* assertions to *net.TCPConn.                                             *)
MaxChunks == 2
Chunks == {<<1>>, <<2, 3>>}

RECURSIVE StreamsOf(_)
StreamsOf(k) ==
    IF k = 0 THEN {<<>>}
    ELSE LET shorter == StreamsOf(k - 1)
         IN  shorter \cup {Append(s, c) : s \in {t \in shorter : Len(t) = k - 1},
                                          c \in Chunks}

NewRelay(kind, srcOK, dstOK, stream, end) ==
    [NoRelay EXCEPT !.kind = kind, !.pc = "read", !.srcOK = srcOK,
                    !.dstOK = dstOK, !.stream = stream, !.end = end]

InitRelay ==
    /\ \E kind \in {"Proxy", "copyFunc"}, srcOK \in BOOLEAN, dstOK \in BOOLEAN,
          stream \in StreamsOf(MaxChunks), end \in {"EOF", "error"} :
           relay = NewRelay(kind, srcOK, dstOK, stream, end)
    /\ lb = NewLoadBalancer(Slice(<<0>>), RoundRobin)
    /\ pending = [b \in {0, Nil} |-> 0]
    /\ SelIdle
    /\ LeastIdle
    /\ DispatchIdle
    /\ CallIdle

(* Mutant of the half-close: the destination is closed altogether.         *)
CloseWriteAsClose(c) == [c EXCEPT !.writeClosed = TRUE, !.closed = TRUE]

(* TCPConn.CloseWrite: the write side is shut down, the connection         *)
(* stays open for reading.                                                 *)
CloseWrite(c) == [c EXCEPT !.writeClosed = TRUE]

(* TCPConn.CloseRead.                                                      *)
CloseRead(c) == [c EXCEPT !.readClosed = TRUE]

(* dst.Write(buf[:n]) that succeeds.                                       *)
Write(c, bytes) == [c EXCEPT !.data = @ \o bytes]

(* n, err := tcpSrc.Read(buf) of Proxy, and the Read of io.CopyBuffer. In  *)
(* Proxy tcpSrc is nil when src is not a *net.TCPConn: the call panics,    *)
(* and the deferred calls run.                                             *)
RelayRead ==
    /\ relay.pc = "read"
    /\ IF relay.kind = "Proxy" /\ ~relay.srcOK
       THEN relay' = [relay EXCEPT !.pc = "panic"]
       ELSE IF relay.stream # <<>>
       THEN relay' = [relay EXCEPT !.n = Head(relay.stream),
                                   !.err = "nil",
                                   !.stream = Tail(@),
                                   !.read = @ \o Head(relay.stream),
                                   !.pc = "write"]
       ELSE relay' = [relay EXCEPT !.n = <<>>, !.err = relay.end,
                                   !.pc = "check"]
    /\ UNCHANGED <<lb, pending, selVars, leastVars, dispVars, callVars>>

(* if n > 0 { dst.Write(buf[:n]) }: on a write error Proxy counts a        *)
(* failure and breaks, io.CopyBuffer returns.                              *)
RelayWrite ==
    /\ relay.pc = "write"
    /\ \E wErr \in BOOLEAN :
           IF wErr
           THEN relay' = [relay EXCEPT
                    !.fails = IF relay.kind = "Proxy" THEN @ + 1 ELSE @,
                    !.pc = IF relay.kind = "Proxy" THEN "exit" ELSE "after"]
           ELSE relay' = [relay EXCEPT !.dst = Write(@, relay.n),
                                       !.pc = "check"]
    /\ UNCHANGED <<lb, pending, selVars, leastVars, dispVars, callVars>>

(* if err != nil: Proxy half-closes the destination on io.EOF when both    *)
(* ends are TCP connections and counts a failure otherwise; io.CopyBuffer  *)
(* returns on any error.                                                   *)
RelayCheck ==
    /\ relay.pc = "check"
    /\ IF relay.err = "nil"
       THEN relay' = [relay EXCEPT !.pc = "read"]
       ELSE IF relay.kind = "Proxy"
       THEN IF relay.err = "EOF" /\ relay.srcOK /\ relay.dstOK
            THEN relay' = [relay EXCEPT !.dst = CloseWrite(@),
                                        !.finAt = Len(relay.dst.data),
                                        !.pc = "exit"]
            ELSE relay' = [relay EXCEPT !.fails = @ + 1, !.pc = "exit"]
       ELSE relay' = [relay EXCEPT !.pc = "after"]
    /\ UNCHANGED <<lb, pending, selVars, leastVars, dispVars, callVars>>

(* copyFunc after io.CopyBuffer: CloseWrite on a TCP destination,          *)
(* CloseRead on a TCP source, proxyWg.Done.                                *)
RelayAfter ==
    /\ relay.pc = "after"
    /\ relay' = [relay EXCEPT
           !.dst = IF relay.dstOK THEN CloseWrite(@) ELSE @,
           !.finAt = IF relay.dstOK THEN Len(relay.dst.data) ELSE @,
           !.src = IF relay.srcOK THEN CloseRead(@) ELSE @,
           !.pc = "done"]
    /\ UNCHANGED <<lb, pending, selVars, leastVars, dispVars, callVars>>

(* Mutant of the exit: release() is called after the loop instead of      *)
(* being deferred, so a panic skips it.                                    *)
RelayExitNotDeferred ==
    /\ relay.pc \in {"exit", "panic"}
    /\ relay' = [relay EXCEPT
           !.released = IF relay.pc = "panic" THEN @ ELSE @ + 1,
           !.pc = IF relay.pc = "panic" THEN "panicked" ELSE "done"]
    /\ UNCHANGED <<lb, pending, selVars, leastVars, dispVars, callVars>>

(* The deferred calls of Proxy, which also run when it panics: pool.Put    *)
(* and release().                                                          *)
RelayExit ==
    /\ relay.pc \in {"exit", "panic"}
    /\ relay' = [relay EXCEPT !.released = @ + 1,
                              !.pc = IF relay.pc = "panic" THEN "panicked"
                                     ELSE "done"]
    /\ UNCHANGED <<lb, pending, selVars, leastVars, dispVars, callVars>>

NextRelay ==
    \/ RelayRead
    \/ RelayWrite
    \/ RelayCheck
    \/ RelayAfter
    \/ RelayExit

SpecRelay == InitRelay /\ [][NextRelay]_vars

(* ---------------------------- the accept loop ------------------------- *)
(* The accept loop goroutine of main, one statement at a time, with the    *)
(* relay goroutines it starts, the health probes and the shutdown sequence *)
(* of the main goroutine. build names the accept loop that runs: "main" is *)
(* main.go, "part_003" the earlier one, which checks max_connections and   *)
(* hands both Proxy goroutines one release guarded by a sync.Once.         *)
MaxClients == 2
MaxProbes == 2
Builds == {"main", "part_003"}
MaxConnectionsChoices == {1, 2}
DispatchWeights == {<<0>>, <<0, 0>>}
DispatchAlgorithms == {RoundRobin, LeastConnections, WeightedRoundRobin}
ClientAddress == JoinHostPort(<<50>>, <<55>>)

NewConn ==
    [st |-> "accepted", backend |-> Nil, up |-> "none", down |-> "none",
     once |-> FALSE, rel |-> 0, seen |-> 0, counted |-> FALSE,
     closed |-> FALSE, bclosed |-> FALSE]

InitDispatch ==
    /\ \E b \in Builds, m \in MaxConnectionsChoices,
          weights \in DispatchWeights, algo \in DispatchAlgorithms :
           /\ build = b
           /\ config = [MaxConnections |-> m]
           /\ lb = NewLoadBalancer(Slice(weights), algo)
           /\ pending = [i \in (0..(Len(weights) - 1)) \cup {Nil} |-> 0]
           /\ metrics = [ActiveConns |-> 0, Served |-> 0, Fails |-> 0]
    /\ acc = [NoAccept EXCEPT !.pc = "accept"]
    /\ probed = NoProbe
    /\ conn = <<>>
    /\ wg = 0
    /\ tracked = {}
    /\ shuttingDown = FALSE
    /\ listenerOpen = TRUE
    /\ sd = "run"
    /\ SelIdle
    /\ LeastIdle
    /\ RelayIdle
    /\ CallIdle

Running == sd # "exit"

(* clientConn, err := listener.Accept() returns a connection.              *)
AcceptConn ==
    /\ Running
    /\ acc.pc = "accept"
    /\ listenerOpen
    /\ Len(conn) < MaxClients
    /\ conn' = Append(conn, NewConn)
    /\ acc' = [pc |-> "check", client |-> Len(conn) + 1, backend |-> Nil,
               idx |-> -1]
    /\ UNCHANGED <<lb, pending, selVars, leastVars, relayVars, build, config,
                   probed,
                   wg, metrics, tracked, shuttingDown, listenerOpen, sd, callVars>>

(* listener.Accept() fails on the closed listener: the goroutine returns.  *)
AcceptError ==
    /\ Running
    /\ acc.pc = "accept"
    /\ ~listenerOpen
    /\ acc' = [acc EXCEPT !.pc = "stopped"]
    /\ UNCHANGED <<lb, pending, selVars, leastVars, relayVars, build, config,
                   probed,
                   conn, wg, metrics, tracked, shuttingDown, listenerOpen, sd, callVars>>

(* Mutant of the test: the rotation counter is advanced before a client   *)
(* is turned away.                                                         *)
CheckAdmissionAfterRotation ==
    /\ Running
    /\ acc.pc = "check"
    /\ LET c == acc.client
           rejected == IF build = "main" THEN shuttingDown
                       ELSE lb.ConnectionCount >= config.MaxConnections
       IN  IF rejected
           THEN /\ conn' = [conn EXCEPT
                       ![c].st = IF build = "main" THEN "refused"
                                 ELSE "rejected",
                       ![c].seen = lb.ConnectionCount,
                       ![c].closed = TRUE]
                /\ acc' = [acc EXCEPT !.pc = "accept"]
                /\ lb' = [lb EXCEPT !.Index = Int32Inc(@)]
           ELSE /\ conn' = [conn EXCEPT ![c].st = "admitted",
                                        ![c].seen = lb.ConnectionCount]
                /\ acc' = [acc EXCEPT !.pc = IF build = "main"
                                             THEN "register" ELSE "select"]
                /\ lb' = lb
    /\ UNCHANGED <<pending, selVars, leastVars, relayVars, build, config,
                   probed,
                   wg, metrics, tracked, shuttingDown, listenerOpen, sd, callVars>>

(* The test made on the accepted connection before a backend is selected.  *)
(* main.go: if shuttingDown.Load() the connection is closed. part_003: if  *)
(* ConnectionCount >= MaxConnections the connection is closed. seen        *)
(* records lb.ConnectionCount at this statement.                           *)
CheckAdmission ==
    /\ Running
    /\ acc.pc = "check"
    /\ LET c == acc.client
           rejected == IF build = "main" THEN shuttingDown
                       ELSE lb.ConnectionCount >= config.MaxConnections
       IN  IF rejected
           THEN /\ conn' = [conn EXCEPT
                       ![c].st = IF build = "main" THEN "refused"
                                 ELSE "rejected",
                       ![c].seen = lb.ConnectionCount,
                       ![c].closed = TRUE]
                /\ acc' = [acc EXCEPT !.pc = "accept"]
           ELSE /\ conn' = [conn EXCEPT ![c].st = "admitted",
                                        ![c].seen = lb.ConnectionCount]
                /\ acc' = [acc EXCEPT !.pc = IF build = "main"
                                             THEN "register" ELSE "select"]
    /\ UNCHANGED <<lb, pending, selVars, leastVars, relayVars, build, config,
                   probed,
                   wg, metrics, tracked, shuttingDown, listenerOpen, sd, callVars>>

(* main.go: wg.Add(1), ActiveConns.Inc() and                               *)
(* activeConns.Store(clientConn) for the admitted connection.              *)
Register ==
    /\ Running
    /\ acc.pc = "register"
    /\ wg' = wg + 1
    /\ metrics' = [metrics EXCEPT !.ActiveConns = @ + 1]
    /\ tracked' = tracked \cup {<<"client", acc.client>>}
    /\ acc' = [acc EXCEPT !.pc = "select"]
    /\ UNCHANGED <<lb, pending, selVars, leastVars, relayVars, build, config,
                   probed,
                   conn, shuttingDown, listenerOpen, sd, callVars>>

(* lb.GetNextBackend(clientConn.RemoteAddr().String(), "/") and the        *)
(* backend == nil branch: the client is closed; main.go also calls         *)
(* wg.Done() and activeConns.Delete(clientConn).                           *)
SelectBackend ==
    /\ Running
    /\ acc.pc = "select"
    /\ LET c == acc.client
           r == GetNextBackend(lb, ClientAddress, RootPath, NoRoute)
       IN  /\ lb' = r.lb
           /\ IF r.backend = Nil
              THEN /\ conn' = [conn EXCEPT
                          ![c].st = "nobackend",
                          ![c].counted = (NumBackends(lb) > 0),
                          ![c].closed = TRUE]
                   /\ acc' = [acc EXCEPT !.pc = "accept"]
                   /\ IF build = "main"
                      THEN /\ wg' = wg - 1
                           /\ tracked' = tracked \ {<<"client", c>>}
                      ELSE UNCHANGED <<wg, tracked, callVars>>
              ELSE /\ conn' = [conn EXCEPT ![c].st = "selected",
                                           ![c].backend = r.backend,
                                           ![c].counted = TRUE]
                   /\ acc' = [acc EXCEPT !.pc = "dial",
                                         !.backend = r.backend,
                                         !.idx = r.idx]
                   /\ UNCHANGED <<wg, tracked, callVars>>
    /\ UNCHANGED <<pending, selVars, leastVars, relayVars, build, config,
                   probed,
                   metrics, shuttingDown, listenerOpen, sd, callVars>>

(* Mutant of the dial: on an error main.go leaves the client connection   *)
(* open and in the activeConns set.                                        *)
DialBackendLeavesClient ==
    /\ Running
    /\ acc.pc = "dial"
    /\ LET c == acc.client
       IN  \E ok \in BOOLEAN :
               IF ~ok
               THEN /\ metrics' = [metrics EXCEPT !.Fails = @ + 1]
                    /\ IF build = "main"
                       THEN /\ lb' = release(lb, acc.backend)
                            /\ conn' = [conn EXCEPT ![c].st = "dialfail",
                                                    ![c].rel = @ + 1]
                            /\ wg' = wg - 1
                            /\ tracked' = tracked
                       ELSE /\ lb' = [lb EXCEPT
                                   !.BackendFails[acc.idx] = Int32Inc(@)]
                            /\ conn' = [conn EXCEPT ![c].st = "dialfail",
                                                    ![c].closed = TRUE]
                            /\ UNCHANGED <<wg, tracked, callVars>>
               ELSE /\ conn' = [conn EXCEPT ![c].st = "relaying",
                                            ![c].up = "run",
                                            ![c].down = "run"]
                    /\ lb' = lb
                    /\ IF build = "main"
                       THEN /\ tracked' = tracked \cup {<<"backend", c>>}
                            /\ metrics' = [metrics EXCEPT !.Served = @ + 1]
                            /\ wg' = wg
                       ELSE /\ wg' = wg + 2
                            /\ metrics' = [metrics EXCEPT
                                   !.ActiveConns = @ + 1, !.Served = @ + 1]
                            /\ tracked' = tracked
    /\ acc' = [acc EXCEPT !.pc = "accept"]
    /\ UNCHANGED <<pending, selVars, leastVars, relayVars, build, config,
                   probed,
                   shuttingDown, listenerOpen, sd, callVars>>

(* net.Dial("tcp", backendAddr) and what follows it. On an error main.go   *)
(* closes the client, counts the failure, calls wg.Done(),                 *)
(* activeConns.Delete and release(); part_003 adds 1 to BackendFails[idx], *)
(* counts the failure and closes the client. On success main.go stores the *)
(* backend connection and starts the proxy goroutine; part_003 calls       *)
(* wg.Add(2) and ActiveConns.Inc() and starts the two Proxy goroutines.    *)
DialBackend ==
    /\ Running
    /\ acc.pc = "dial"
    /\ LET c == acc.client
       IN  \E ok \in BOOLEAN :
               IF ~ok
               THEN /\ metrics' = [metrics EXCEPT !.Fails = @ + 1]
                    /\ IF build = "main"
                       THEN /\ lb' = release(lb, acc.backend)
                            /\ conn' = [conn EXCEPT ![c].st = "dialfail",
                                                    ![c].rel = @ + 1,
                                                    ![c].closed = TRUE]
                            /\ wg' = wg - 1
                            /\ tracked' = tracked \ {<<"client", c>>}
                       ELSE /\ lb' = [lb EXCEPT
                                   !.BackendFails[acc.idx] = Int32Inc(@)]
                            /\ conn' = [conn EXCEPT ![c].st = "dialfail",
                                                    ![c].closed = TRUE]
                            /\ UNCHANGED <<wg, tracked, callVars>>
               ELSE /\ conn' = [conn EXCEPT ![c].st = "relaying",
                                            ![c].up = "run",
                                            ![c].down = "run"]
                    /\ lb' = lb
                    /\ IF build = "main"
                       THEN /\ tracked' = tracked \cup {<<"backend", c>>}
                            /\ metrics' = [metrics EXCEPT !.Served = @ + 1]
                            /\ wg' = wg
                       ELSE /\ wg' = wg + 2
                            /\ metrics' = [metrics EXCEPT
                                   !.ActiveConns = @ + 1, !.Served = @ + 1]
                            /\ tracked' = tracked
    /\ acc' = [acc EXCEPT !.pc = "accept"]
    /\ UNCHANGED <<pending, selVars, leastVars, relayVars, build, config,
                   probed,
                   shuttingDown, listenerOpen, sd, callVars>>

(* Mutant of once.Do: the function runs on every call.                     *)
OnceDoAlways(done) == TRUE

(* once.Do(f) runs f when no earlier call has.                             *)
OnceDo(done) == ~done

(* One relay direction of a connection ends. main.go: copyFunc returns,    *)
(* proxyWg.Done(). part_003: Proxy returns and its deferred release() runs *)
(* once.Do: originalRelease(), ActiveConns.Dec(), wg.Done().               *)
RelayEnd ==
    /\ Running
    /\ \E c \in DOMAIN conn, dir \in {"up", "down"} :
        /\ conn[c].st = "relaying"
        /\ conn[c][dir] = "run"
        /\ LET other == IF dir = "up" THEN conn[c].down ELSE conn[c].up
               ended == [conn[c] EXCEPT
                            ![dir] = "done",
                            !.st = IF build = "part_003" /\ other = "done"
                                   THEN "done" ELSE @]
           IN  IF build = "part_003" /\ OnceDo(conn[c].once)
               THEN /\ lb' = release(lb, conn[c].backend)
                    /\ metrics' = [metrics EXCEPT !.ActiveConns = @ - 1]
                    /\ wg' = wg - 1
                    /\ conn' = [conn EXCEPT
                           ![c] = [ended EXCEPT !.once = TRUE, !.rel = @ + 1]]
               ELSE /\ conn' = [conn EXCEPT ![c] = ended]
                    /\ UNCHANGED <<lb, metrics, wg, callVars>>
    /\ UNCHANGED <<pending, selVars, leastVars, relayVars, build, config,
                   probed,
                   acc, tracked, shuttingDown, listenerOpen, sd, callVars>>

(* main.go: proxyWg.Wait() has returned and the deferred calls of the      *)
(* proxy goroutine run: releaseFunc(), the two activeConns.Delete,         *)
(* ActiveConns.Dec(), b.Close(), c.Close(), wg.Done().                     *)
ProxyExit ==
    /\ Running
    /\ build = "main"
    /\ \E c \in DOMAIN conn :
        /\ conn[c].st = "relaying"
        /\ conn[c].up = "done"
        /\ conn[c].down = "done"
        /\ lb' = release(lb, conn[c].backend)
        /\ tracked' = tracked \ {<<"client", c>>, <<"backend", c>>}
        /\ conn' = [conn EXCEPT ![c].st = "done", ![c].rel = @ + 1,
                                ![c].closed = TRUE, ![c].bclosed = TRUE]
    /\ metrics' = [metrics EXCEPT !.ActiveConns = @ - 1]
    /\ wg' = wg - 1
    /\ UNCHANGED <<pending, selVars, leastVars, relayVars, build, config,
                   probed,
                   acc, shuttingDown, listenerOpen, sd, callVars>>

(* A health probe of backend i ends while the accept loop runs:            *)
(* checkBackend calls setBackendHealth with the result of its dial.        *)
(* part_003 line 63 calls StartHealthChecks; main.go never does, so no     *)
(* probe runs in that build.                                               *)
DispatchProbe ==
    /\ Running
    /\ build = "part_003"
    /\ healthGen < MaxProbes
    /\ \E i \in DOMAIN lb.Backends, healthy \in BOOLEAN :
           /\ lb' = setBackendHealth(lb, i, healthy)
           /\ probed' = [index |-> i, healthy |-> healthy,
                         was |-> lb.Backends[i].IsHealthy,
                         failsBefore |-> lb.BackendFails[i]]
    /\ healthGen' = healthGen + 1
    /\ UNCHANGED <<pending, last, calls, picks, hashSeen, leastVars,
                   relayVars, build, config, acc, conn, wg, metrics, tracked,
                   shuttingDown, listenerOpen, sd, callVars>>

(* The main goroutine receives the signal. main.go: the flag is stored.    *)
(* part_003 has no flag: its next statement is listener.Close().           *)
Signal ==
    /\ sd = "run"
    /\ IF build = "main"
       THEN shuttingDown' = TRUE /\ listenerOpen' = listenerOpen
       ELSE shuttingDown' = shuttingDown /\ listenerOpen' = FALSE
    /\ sd' = IF build = "main" THEN "flag" ELSE "wait"
    /\ UNCHANGED <<lb, pending, selVars, leastVars, relayVars, build, config,
                   probed,
                   acc, conn, wg, metrics, tracked, callVars>>

(* main.go: listener.Close().                                              *)
CloseListener ==
    /\ sd = "flag"
    /\ listenerOpen' = FALSE
    /\ sd' = "range"
    /\ UNCHANGED <<lb, pending, selVars, leastVars, relayVars, build, config,
                   probed,
                   acc, conn, wg, metrics, tracked, shuttingDown, callVars>>

(* main.go: activeConns.Range closes every connection in the set.          *)
CloseTracked ==
    /\ sd = "range"
    /\ conn' = [c \in DOMAIN conn |->
                   [conn[c] EXCEPT
                       !.closed = @ \/ <<"client", c>> \in tracked,
                       !.bclosed = @ \/ <<"backend", c>> \in tracked]]
    /\ sd' = "wait"
    /\ UNCHANGED <<lb, pending, selVars, leastVars, relayVars, build, config,
                   probed,
                   acc, wg, metrics, tracked, shuttingDown, listenerOpen, callVars>>

(* Mutant of the shutdown sequence: main returns without wg.Wait().        *)
WaitDoneWithoutWait ==
    /\ sd = "wait"
    /\ sd' = "exit"
    /\ UNCHANGED <<lb, pending, selVars, leastVars, relayVars, build, config,
                   probed, acc, conn, wg, metrics, tracked, shuttingDown,
                   listenerOpen, callVars>>

(* wg.Wait() returns when the counter is zero, and main returns.           *)
WaitDone ==
    /\ sd = "wait"
    /\ wg = 0
    /\ sd' = "exit"
    /\ UNCHANGED <<lb, pending, selVars, leastVars, relayVars, build, config,
                   probed,
                   acc, conn, wg, metrics, tracked, shuttingDown,
                   listenerOpen, callVars>>

NextDispatch ==
    \/ AcceptConn
    \/ AcceptError
    \/ CheckAdmission
    \/ Register
    \/ SelectBackend
    \/ DialBackend
    \/ RelayEnd
    \/ ProxyExit
    \/ DispatchProbe
    \/ Signal
    \/ CloseListener
    \/ CloseTracked
    \/ WaitDone

SpecDispatch == InitDispatch /\ [][NextDispatch]_vars

(* ------------------- GetNextBackend as a caller sees it --------------- *)
(* One call at a time on a LoadBalancer drawn from a set of inputs: every  *)
(* algorithm, health flags, and a path-route map that is empty or routes   *)
(* the prefix "/a" to one backend. fn keeps the LoadBalancer before the    *)
(* call, the arguments and the result.                                     *)
MaxFnCalls == 2
CallWeights == {<<1>>, <<3, 1>>, <<1, 1, 1>>}
PrefixA == <<47, 97>>
PathAB == <<47, 97, 47, 98>>
CallPaths == {RootPath, PathAB}

RouteMaps(n) == {<<>>} \cup {[p \in {PrefixA} |-> b] : b \in 0..(n - 1)}

InitCall ==
    /\ \E weights \in CallWeights, algo \in Algorithms :
       \E unhealthy \in SUBSET (0..(Len(weights) - 1)),
          routes \in RouteMaps(Len(weights)) :
           /\ lb = [NewLoadBalancer(Slice(weights), algo) EXCEPT
                       !.PathRoutes = routes,
                       !.Backends = [i \in DOMAIN @ |->
                           [@[i] EXCEPT !.IsHealthy = i \notin unhealthy]]]
           /\ pending = [b \in (0..(Len(weights) - 1)) \cup {Nil} |-> 0]
    /\ fn = NoFn
    /\ rl = NoReload
    /\ pf = NoPure
    /\ SelIdle
    /\ LeastIdle
    /\ RelayIdle
    /\ DispatchIdle

(* backend, idx, release := lb.GetNextBackend(clientAddress, path)         *)
CallGetNextBackend ==
    /\ fn.pc \in {"idle", "released"}
    /\ fn.n < MaxFnCalls
    /\ \E host \in ClientHosts, path \in CallPaths :
       \E route \in RouteChoices(lb, path) :
           LET r == GetNextBackend(lb, JoinHostPort(host, <<55>>), path, route)
           IN  /\ lb' = r.lb
               /\ fn' = [pc |-> "returned", n |-> fn.n + 1, before |-> lb,
                         path |-> path, route |-> route,
                         backend |-> r.backend, idx |-> r.idx,
                         noop |-> r.noop]
    /\ UNCHANGED <<pending, selVars, leastVars, relayVars, dispVars, rl, pf>>

(* release()                                                               *)
CallRelease ==
    /\ fn.pc = "returned"
    /\ lb' = IF fn.noop THEN lb ELSE release(lb, fn.backend)
    /\ fn' = [fn EXCEPT !.pc = "released"]
    /\ UNCHANGED <<pending, selVars, leastVars, relayVars, dispVars, rl, pf>>

NextCall ==
    \/ CallGetNextBackend
    \/ CallRelease

SpecCall == InitCall /\ [][NextCall]_vars

(* ----------------------------- ReloadConfig --------------------------- *)
(* config.ReloadConfig one assignment at a time, while GetNextBackend      *)
(* calls run in the accept loop: the selection, then the two atomic        *)
(* additions. Nothing in ReloadConfig or GetNextBackend locks the fields   *)
(* of the LoadBalancer, so the steps interleave freely. Backends carry     *)
(* their Address here, a one-byte string.                                  *)
MaxReloadCalls == 2
AddrA == <<97>>
AddrB == <<98>>
AddrC == <<99>>
OldLists == {<<AddrA>>, <<AddrA, AddrB>>}
NewLists == {<<AddrA>>, <<AddrB, AddrA>>, <<AddrA, AddrB, AddrC>>, <<AddrC>>}
(* The algorithm names, as byte strings.                                   *)
NameRoundRobin == <<114, 111, 117, 110, 100, 95, 114, 111, 98, 105, 110>>
NameLeastConn == <<108, 101, 97, 115, 116, 95, 99, 111, 110, 110>>
NameIPHash == <<105, 112, 95, 104, 97, 115, 104>>
NameWRoundRobin == <<119, 95>> \o NameRoundRobin
NameRandom == <<114, 97, 110, 100, 111, 109>>          \* "random"
AlgorithmNames ==
    {NameRoundRobin, NameLeastConn, NameIPHash, NameWRoundRobin, NameRandom}

(* Mutant of strings.ToLower: the name is compared as it is written.       *)
ToLowerIdentity(s) == s

(* strings.ToLower on an ASCII string: A-Z become a-z.                     *)
ToLower(s) == [i \in DOMAIN s |-> IF s[i] \in 65..90 THEN s[i] + 32 ELSE s[i]]

(* core.ParseAlgorithm: a switch on the lower-cased name.                  *)
ParseAlgorithm(name) ==
    LET lower == ToLower(name)
    IN  CASE lower = NameRoundRobin -> RoundRobin
          [] lower = NameLeastConn -> LeastConnections
          [] lower = NameIPHash -> IPHash
          [] lower = NameWRoundRobin -> WeightedRoundRobin
          [] OTHER -> RoundRobin

(* &core.Backend{Address: backend.Address, IsHealthy: true}                *)
NewBackendAt(address) ==
    [Address |-> address, Weight |-> 0, IsHealthy |-> TRUE,
     ActiveConnections |-> 0, CurrentWeight |-> 0]

Zeros(n) == [i \in 0..(n - 1) |-> 0]

AddressesOf(backends) == {backends[i].Address : i \in DOMAIN backends}
PositionOf(backends, address) ==
    CHOOSE i \in DOMAIN backends :
        /\ backends[i].Address = address
        /\ \A j \in DOMAIN backends : backends[j].Address = address => i <= j

(* The loop over cfg.Backends: the old backend of the same address when    *)
(* there is one, a new healthy backend otherwise.                          *)
Reconcile(backends, addresses) ==
    [i \in 0..(Len(addresses) - 1) |->
        IF addresses[i + 1] \in AddressesOf(backends)
        THEN backends[PositionOf(backends, addresses[i + 1])]
        ELSE NewBackendAt(addresses[i + 1])]

(* ReloadConfig run alone, after LoadConfig has succeeded.                 *)
ReloadConfig(l, cfg) ==
    [l EXCEPT !.Algo = ParseAlgorithm(cfg.Algorithm),
              !.Backends = Reconcile(l.Backends, cfg.Backends),
              !.BackendCounts = Zeros(Len(cfg.Backends)),
              !.BackendFails = Zeros(Len(cfg.Backends))]

(* What a GetNextBackend call can tell of the LoadBalancer: the algorithm, *)
(* the addresses in order and the lengths of the counter arrays.           *)
Observed(l) ==
    [Algo |-> l.Algo,
     Addresses |-> [i \in DOMAIN l.Backends |-> l.Backends[i].Address],
     Counts |-> DOMAIN l.BackendCounts,
     Fails |-> DOMAIN l.BackendFails]

InitReload ==
    /\ \E addresses \in OldLists, algo \in Algorithms :
       \E unhealthy \in SUBSET (0..(Len(addresses) - 1)) :
           /\ lb = [Backends |-> [i \in 0..(Len(addresses) - 1) |->
                        [NewBackendAt(addresses[i + 1]) EXCEPT
                            !.IsHealthy = i \notin unhealthy]],
                    Algo |-> algo,
                    ConnectionCount |-> 0,
                    Index |-> -1,
                    BackendCounts |-> Zeros(Len(addresses)),
                    BackendFails |-> Zeros(Len(addresses)),
                    PathRoutes |-> <<>>]
           /\ pending = [b \in (0..(Len(addresses) - 1)) \cup {Nil} |-> 0]
    /\ fn = NoFn
    /\ rl = NoReload
    /\ pf = NoPure
    /\ SelIdle
    /\ LeastIdle
    /\ RelayIdle
    /\ DispatchIdle

InReload == rl.pc \notin {"idle", "done", "failed"}

(* GetNextBackend up to the end of the switch on lb.Algo.                  *)
FnSelect ==
    /\ fn.pc \in {"idle", "counted"}
    /\ fn.n < MaxReloadCalls
    /\ \E host \in ClientHosts :
           LET st == AlgoSwitch(PathLoop(lb, NoRoute),
                                JoinHostPort(host, <<55>>))
           IN  /\ lb' = st.lb
               /\ fn' = [NoFn EXCEPT !.pc = "selected", !.n = fn.n + 1,
                                     !.before = Observed(lb),
                                     !.backend = st.backend, !.idx = st.idx]
    /\ rl' = IF InReload THEN [rl EXCEPT !.disturbed = TRUE] ELSE rl
    /\ UNCHANGED <<pending, selVars, leastVars, relayVars, dispVars, pf>>

(* atomic.AddInt32(&lb.ConnectionCount, 1) and                             *)
(* atomic.AddInt32(&lb.BackendCounts[idx], 1): the index expression panics *)
(* when idx is not below the length of the slice lb.BackendCounts now has. *)
FnCount ==
    /\ fn.pc = "selected"
    /\ IF fn.idx \in DOMAIN lb.BackendCounts
       THEN /\ lb' = [lb EXCEPT !.ConnectionCount = Int32Inc(@),
                                !.BackendCounts[fn.idx] = Int32Inc(@)]
            /\ fn' = [fn EXCEPT !.pc = "counted"]
       ELSE /\ lb' = [lb EXCEPT !.ConnectionCount = Int32Inc(@)]
            /\ fn' = [fn EXCEPT !.pc = "panicked"]
    /\ rl' = IF InReload THEN [rl EXCEPT !.disturbed = TRUE] ELSE rl
    /\ UNCHANGED <<pending, selVars, leastVars, relayVars, dispVars, pf>>

(* cfg, err := LoadConfig(configPath) returns a config.                    *)
ReloadLoad ==
    /\ rl.pc = "idle"
    /\ fn.pc # "panicked"
    /\ \E addresses \in NewLists, name \in AlgorithmNames :
           rl' = [pc |-> "algo",
                  cfg |-> [Algorithm |-> name, Backends |-> addresses,
                           MaxConnections |-> 2],
                  old |-> lb, disturbed |-> FALSE]
    /\ UNCHANGED <<lb, fn, pending, selVars, leastVars, relayVars, dispVars, pf>>

(* Mutant of the load failure: the algorithm of the empty configuration is *)
(* stored before ReloadConfig returns.                                     *)
ReloadLoadErrorStoresAlgo ==
    /\ rl.pc = "idle"
    /\ fn.pc # "panicked"
    /\ rl' = [pc |-> "failed",
              cfg |-> [Algorithm |-> <<>>, Backends |-> <<>>,
                       MaxConnections |-> 0],
              old |-> lb, disturbed |-> FALSE]
    /\ lb' = [lb EXCEPT !.Algo = ParseAlgorithm(<<>>)]
    /\ UNCHANGED <<fn, pending, selVars, leastVars, relayVars, dispVars, pf>>

(* LoadConfig returns an error: ReloadConfig returns.                      *)
ReloadLoadError ==
    /\ rl.pc = "idle"
    /\ fn.pc # "panicked"
    /\ rl' = [pc |-> "failed",
              cfg |-> [Algorithm |-> <<>>, Backends |-> <<>>,
                       MaxConnections |-> 0],
              old |-> lb, disturbed |-> FALSE]
    /\ UNCHANGED <<lb, fn, pending, selVars, leastVars, relayVars, dispVars, pf>>

(* lb.Algo = core.ParseAlgorithm(cfg.Algorithm)                            *)
ReloadAlgo ==
    /\ rl.pc = "algo"
    /\ lb' = [lb EXCEPT !.Algo = ParseAlgorithm(rl.cfg.Algorithm)]
    /\ rl' = [rl EXCEPT !.pc = "config"]
    /\ UNCHANGED <<fn, pending, selVars, leastVars, relayVars, dispVars, pf>>

(* lb.Config = cfg                                                         *)
ReloadSetConfig ==
    /\ rl.pc = "config"
    /\ config' = [MaxConnections |-> rl.cfg.MaxConnections]
    /\ rl' = [rl EXCEPT !.pc = "backends"]
    /\ UNCHANGED <<lb, fn, pending, selVars, leastVars, relayVars, probed,
                   build, acc, conn, wg, metrics, tracked, shuttingDown,
                   listenerOpen, sd, pf>>

(* The loop and lb.Backends = newBackends.                                 *)
ReloadBackends ==
    /\ rl.pc = "backends"
    /\ lb' = [lb EXCEPT !.Backends = Reconcile(@, rl.cfg.Backends)]
    /\ rl' = [rl EXCEPT !.pc = "counts"]
    /\ UNCHANGED <<fn, pending, selVars, leastVars, relayVars, dispVars, pf>>

(* lb.BackendCounts = make([]int32, len(lb.Backends))                      *)
ReloadCounts ==
    /\ rl.pc = "counts"
    /\ lb' = [lb EXCEPT !.BackendCounts = Zeros(NumBackends(lb))]
    /\ rl' = [rl EXCEPT !.pc = "fails"]
    /\ UNCHANGED <<fn, pending, selVars, leastVars, relayVars, dispVars, pf>>

(* lb.BackendFails = make([]int32, len(lb.Backends))                       *)
ReloadFails ==
    /\ rl.pc = "fails"
    /\ lb' = [lb EXCEPT !.BackendFails = Zeros(NumBackends(lb))]
    /\ rl' = [rl EXCEPT !.pc = "done"]
    /\ UNCHANGED <<fn, pending, selVars, leastVars, relayVars, dispVars, pf>>

NextReload ==
    \/ FnSelect
    \/ FnCount
    \/ ReloadLoad
    \/ ReloadLoadError
    \/ ReloadAlgo
    \/ ReloadSetConfig
    \/ ReloadBackends
    \/ ReloadCounts
    \/ ReloadFails

SpecReload == InitReload /\ [][NextReload]_vars

(* -------------------------- ParseAlgorithm calls ---------------------- *)
(* core.ParseAlgorithm called on a configured algorithm name: the four     *)
(* documented names in every mix of upper and lower case, and names that   *)
(* are not documented, the empty one included.                             *)
CaseVariants(s) ==
    {[i \in DOMAIN s |-> IF i \in U /\ s[i] \in 97..122 THEN s[i] - 32
                         ELSE s[i]] : U \in SUBSET (DOMAIN s)}
OtherNames ==
    {<<>>, NameRandom,
     <<114, 114>>,                                    \* "rr"
     NameIPHash \o <<32>>,                            \* "ip_hash "
     <<105, 112, 45, 104, 97, 115, 104>>,             \* "ip-hash"
     <<73, 80, 72, 65, 83, 72>>,                      \* "IPHASH"
     SubSeq(NameRoundRobin, 1, 5),                    \* "round"
     NameLeastConn \o <<115>>}                        \* "least_conns"
ParseInputs ==
    CaseVariants(NameRoundRobin) \cup CaseVariants(NameLeastConn)
        \cup CaseVariants(NameIPHash) \cup CaseVariants(NameWRoundRobin)
        \cup OtherNames

InitParse ==
    /\ \E name \in ParseInputs :
           pf = [op |-> "ParseAlgorithm", pc |-> "call", arg |-> name,
                 res |-> <<>>]
    /\ fn = NoFn
    /\ rl = NoReload
    /\ lb = NewLoadBalancer(Slice(<<0>>), RoundRobin)
    /\ pending = [b \in {0, Nil} |-> 0]
    /\ SelIdle
    /\ LeastIdle
    /\ RelayIdle
    /\ DispatchIdle

(* Algo: core.ParseAlgorithm(cfg.Algorithm)                                *)
ParseCall ==
    /\ pf.op = "ParseAlgorithm"
    /\ pf.pc = "call"
    /\ pf' = [pf EXCEPT !.pc = "returned", !.res = ParseAlgorithm(pf.arg)]
    /\ UNCHANGED <<lb, pending, selVars, leastVars, relayVars, dispVars,
                   fn, rl>>

NextParse == ParseCall

SpecParse == InitParse /\ [][NextParse]_vars



(* --------------------------- the health monitor ----------------------- *)
(* core.StartHealthChecks and the goroutine it starts: every round one     *)
(* checkBackend goroutine per backend, then time.Sleep(freq). Durations    *)
(* are counted in milliseconds. pf.arg is the configuration, pf.res the    *)
(* interval in use, the timeout of the latest dial, the rounds started,    *)
(* the time slept so far and the probes that have not ended.               *)
MaxSeconds == 2          \* largest configured interval and timeout
MaxRounds == 2           \* probe rounds in one behaviour
Second == 1000
MonitorWeights == {<<0>>, <<0, 0>>}

InitMonitor ==
    /\ \E freq \in 0..MaxSeconds, timeout \in 0..MaxSeconds,
          weights \in MonitorWeights :
           /\ pf = [op |-> "StartHealthChecks", pc |-> "start",
                    arg |-> [HealthCheckFreq |-> freq,
                             TimeoutSeconds |-> timeout],
                    res |-> [freq |-> 0, timeout |-> 0, rounds |-> 0,
                             slept |-> 0, probing |-> {}]]
           /\ lb = NewLoadBalancer(Slice(weights), RoundRobin)
           /\ pending = [b \in (0..(Len(weights) - 1)) \cup {Nil} |-> 0]
    /\ fn = NoFn
    /\ rl = NoReload
    /\ SelIdle
    /\ LeastIdle
    /\ RelayIdle
    /\ DispatchIdle

(* freq := time.Duration(lb.Config.HealthCheckFreq) * time.Second and      *)
(* if freq == 0 { freq = freq * 19 }                                       *)
MonitorStart ==
    /\ pf.op = "StartHealthChecks"
    /\ pf.pc = "start"
    /\ LET freq == pf.arg.HealthCheckFreq * Second
       IN  pf' = [pf EXCEPT !.pc = "round",
                            !.res.freq = IF freq = 0 THEN freq * 19 ELSE freq]
    /\ UNCHANGED <<lb, pending, selVars, leastVars, relayVars, dispVars,
                   fn, rl>>

(* for i, backend := range lb.Backends { go checkBackend(backend, lb, i) } *)
(* Each checkBackend computes its timeout from lb.Config.TimeoutSeconds    *)
(* and dials with it.                                                      *)
MonitorRound ==
    /\ pf.op = "StartHealthChecks"
    /\ pf.pc = "round"
    /\ pf.res.rounds < MaxRounds
    /\ pf' = [pf EXCEPT !.pc = "sleep",
                        !.res.rounds = @ + 1,
                        !.res.timeout = pf.arg.TimeoutSeconds * Second,
                        !.res.probing = @ \cup DOMAIN lb.Backends]
    /\ UNCHANGED <<lb, pending, selVars, leastVars, relayVars, dispVars,
                   fn, rl>>

(* time.Sleep(freq): a duration of zero or less returns at once.           *)
MonitorSleep ==
    /\ pf.op = "StartHealthChecks"
    /\ pf.pc = "sleep"
    /\ pf' = [pf EXCEPT !.pc = "round",
                        !.res.slept = @ + (IF pf.res.freq > 0
                                           THEN pf.res.freq ELSE 0)]
    /\ UNCHANGED <<lb, pending, selVars, leastVars, relayVars, dispVars,
                   fn, rl>>

(* A checkBackend goroutine ends: setBackendHealth with its result.        *)
MonitorProbeEnd ==
    /\ pf.op = "StartHealthChecks"
    /\ \E i \in pf.res.probing, healthy \in BOOLEAN :
           /\ lb' = setBackendHealth(lb, i, healthy)
           /\ pf' = [pf EXCEPT !.res.probing = @ \ {i}]
    /\ UNCHANGED <<pending, selVars, leastVars, relayVars, dispVars, fn, rl>>

NextMonitor ==
    \/ MonitorStart
    \/ MonitorRound
    \/ MonitorSleep
    \/ MonitorProbeEnd

SpecMonitor == InitMonitor /\ [][NextMonitor]_vars


(* ------------------------ the rotation counter ------------------------ *)
(* The round robin case one attempt at a time, on a LoadBalancer whose     *)
(* rotation counter lb.Index holds any value an int32 reaches, the values  *)
(* around the wrap from MaxInt32 to MinInt32 included. pf.res keeps the    *)
(* index of the latest attempt, the attempts made and the calls made.      *)
MaxRotations == 2        \* round robin calls in one behaviour
RotationStarts ==
    {-1, 0, 1, MaxInt32 - 2, MaxInt32 - 1, MaxInt32, MinInt32,
     MinInt32 + 1, -3, -2}
RotationWeights == {<<0>>, <<0, 0>>, <<0, 0, 0>>}

InitRotation ==
    /\ \E start \in RotationStarts, weights \in RotationWeights :
       \E unhealthy \in SUBSET (0..(Len(weights) - 1)) :
           /\ lb = [NewLoadBalancer(Slice(weights), RoundRobin) EXCEPT
                       !.Index = start,
                       !.Backends = [i \in DOMAIN @ |->
                           [@[i] EXCEPT !.IsHealthy = i \notin unhealthy]]]
           /\ pending = [b \in (0..(Len(weights) - 1)) \cup {Nil} |-> 0]
    /\ pf = [op |-> "RoundRobin", pc |-> "attempt", arg |-> lb.Index,
             res |-> [idx |-> 0, attempts |-> 0, calls |-> 1,
                      backend |-> Nil]]
    /\ fn = NoFn
    /\ rl = NoReload
    /\ SelIdle
    /\ LeastIdle
    /\ RelayIdle
    /\ DispatchIdle

(* idx := int(atomic.AddInt32(&lb.Index, 1)) % len(lb.Backends) and        *)
(* candidate := lb.Backends[idx], which panics when idx is out of range;   *)
(* a healthy candidate ends the loop.                                      *)
RotationAttempt ==
    /\ pf.op = "RoundRobin"
    /\ pf.pc = "attempt"
    /\ pf.res.attempts < NumBackends(lb)
    /\ LET next == Int32Inc(lb.Index)
           idx  == GoMod(next, NumBackends(lb))
       IN  /\ lb' = [lb EXCEPT !.Index = next]
           /\ pf' = [pf EXCEPT
                  !.res.idx = idx,
                  !.res.attempts = @ + 1,
                  !.res.backend = IF idx \in DOMAIN lb.Backends
                                     /\ lb.Backends[idx].IsHealthy
                                  THEN idx ELSE Nil,
                  !.pc = IF idx \notin DOMAIN lb.Backends THEN "panicked"
                         ELSE IF lb.Backends[idx].IsHealthy THEN "returned"
                         ELSE "attempt"]
    /\ UNCHANGED <<pending, selVars, leastVars, relayVars, dispVars, fn, rl>>

(* attempts < len(lb.Backends) is false: the loop ends without a backend.  *)
RotationExhausted ==
    /\ pf.op = "RoundRobin"
    /\ pf.pc = "attempt"
    /\ pf.res.attempts >= NumBackends(lb)
    /\ pf' = [pf EXCEPT !.pc = "returned", !.res.backend = Nil]
    /\ UNCHANGED <<lb, pending, selVars, leastVars, relayVars, dispVars,
                   fn, rl>>

(* The next GetNextBackend call enters the loop.                           *)
RotationNextCall ==
    /\ pf.op = "RoundRobin"
    /\ pf.pc = "returned"
    /\ pf.res.calls < MaxRotations
    /\ pf' = [pf EXCEPT !.pc = "attempt", !.arg = lb.Index,
                        !.res.attempts = 0, !.res.calls = @ + 1,
                        !.res.backend = Nil]
    /\ UNCHANGED <<lb, pending, selVars, leastVars, relayVars, dispVars,
                   fn, rl>>

NextRotation ==
    \/ RotationAttempt
    \/ RotationExhausted
    \/ RotationNextCall

SpecRotation == InitRotation /\ [][NextRotation]_vars


(* -------------------- concurrent round robin calls -------------------- *)
(* Several goroutines inside the round robin loop of GetNextBackend at the *)
(* same time, one attempt at a time; the attempts of the callers share     *)
(* lb.Index through atomic.AddInt32. The health flags do not change.       *)
(* pf.res holds each caller's position: attempts made, backend found.      *)
MaxCallers == 2          \* goroutines calling GetNextBackend at once
Callers == 1..MaxCallers

InitConcurrent ==
    /\ \E weights \in RotationWeights :
       \E unhealthy \in SUBSET (0..(Len(weights) - 1)) :
           /\ lb = [NewLoadBalancer(Slice(weights), RoundRobin) EXCEPT
                       !.Backends = [i \in DOMAIN @ |->
                           [@[i] EXCEPT !.IsHealthy = i \notin unhealthy]]]
           /\ pending = [b \in (0..(Len(weights) - 1)) \cup {Nil} |-> 0]
    /\ pf = [op |-> "Concurrent", pc |-> "run", arg |-> <<>>,
             res |-> [c \in Callers |->
                        [pc |-> "attempt", attempts |-> 0, backend |-> Nil]]]
    /\ fn = NoFn
    /\ rl = NoReload
    /\ SelIdle
    /\ LeastIdle
    /\ RelayIdle
    /\ DispatchIdle

(* One attempt of one caller: the counter is advanced, the candidate's     *)
(* flag is read, a healthy candidate ends the loop.                        *)
ConcurrentAttempt ==
    /\ pf.op = "Concurrent"
    /\ \E c \in Callers :
           /\ pf.res[c].pc = "attempt"
           /\ pf.res[c].attempts < NumBackends(lb)
           /\ LET next == Int32Inc(lb.Index)
                  idx  == GoMod(next, NumBackends(lb))
              IN  /\ lb' = [lb EXCEPT !.Index = next]
                  /\ pf' = [pf EXCEPT
                         !.res[c].attempts = @ + 1,
                         !.res[c].backend = IF lb.Backends[idx].IsHealthy
                                            THEN idx ELSE Nil,
                         !.res[c].pc = IF lb.Backends[idx].IsHealthy
                                       THEN "returned" ELSE "attempt"]
    /\ UNCHANGED <<pending, selVars, leastVars, relayVars, dispVars, fn, rl>>

(* A caller has made len(lb.Backends) attempts: its loop ends without a    *)
(* backend and the call returns nil.                                       *)
ConcurrentExhausted ==
    /\ pf.op = "Concurrent"
    /\ \E c \in Callers :
           /\ pf.res[c].pc = "attempt"
           /\ pf.res[c].attempts >= NumBackends(lb)
           /\ pf' = [pf EXCEPT !.res[c].pc = "returned",
                               !.res[c].backend = Nil]
    /\ UNCHANGED <<lb, pending, selVars, leastVars, relayVars, dispVars,
                   fn, rl>>

NextConcurrent ==
    \/ ConcurrentAttempt
    \/ ConcurrentExhausted

SpecConcurrent == InitConcurrent /\ [][NextConcurrent]_vars

(* --------------------------- backend mutexes --------------------------- *)
(* GetNextBackend, the release callback and setBackendHealth at the level  *)
(* of b.mutex.Lock() and b.mutex.Unlock(): each task is a goroutine, a     *)
(* selection followed by its release or one health result. Lock is a step  *)
(* that waits until the mutex is free; the statements up to the Unlock are *)
(* the next step. pf.res.mutex maps a backend to the task that holds its   *)
(* mutex, pf.res.task maps a task to its position and locals.              *)
MaxTasks == 2            \* goroutines running at once
Tasks == 1..MaxTasks
Free == 0
LockWeights == <<3, 1>>
LockRoutes == {NoRoute, 1}
LockUnhealthy == {{}, {1}}

NewTask(kind, route, b, healthy) ==
    [kind |-> kind,
     pc |-> IF kind = "probe" THEN "probe"
            ELSE IF route # NoRoute THEN "path" ELSE "switch",
     route |-> route, b |-> b, healthy |-> healthy,
     i |-> 0, attempts |-> 0, minIdx |-> 0, minConn |-> 0,
     selected |-> Nil, maxWeight |-> -1, backend |-> Nil, idx |-> 0]

TaskChoices ==
    {NewTask("select", route, route, TRUE) : route \in LockRoutes}
    \cup {NewTask("probe", NoRoute, b, healthy) :
              b \in 0..(Len(LockWeights) - 1), healthy \in BOOLEAN}

(* The position before each b.mutex.Lock() and the position after it.      *)
BodyOf ==
    [path |-> "pathBody", rrLock |-> "rrBody", lc |-> "lcBody",
     lcInc |-> "lcIncBody", wrr |-> "wrrBody", wrrSel |-> "wrrSelBody",
     returned |-> "relBody", probe |-> "probeBody"]
LockPcs == DOMAIN BodyOf
BodyPcs == {BodyOf[p] : p \in LockPcs}

Unlock(mutex, b) == [mutex EXCEPT ![b] = Free]
HeldBy(t) == {b \in DOMAIN pf.res.mutex : pf.res.mutex[b] = t}
Blocked(t) ==
    /\ pf.res.task[t].pc \in LockPcs
    /\ pf.res.mutex[pf.res.task[t].b] # Free

InitLocks ==
    /\ \E algo \in Algorithms, unhealthy \in LockUnhealthy :
           lb = [NewLoadBalancer(Slice(LockWeights), algo) EXCEPT
                    !.Backends = [i \in DOMAIN @ |->
                        [@[i] EXCEPT !.IsHealthy = i \notin unhealthy]]]
    /\ pending = [b \in (0..(Len(LockWeights) - 1)) \cup {Nil} |-> 0]
    /\ \E task \in [Tasks -> TaskChoices] :
           pf = [op |-> "Locks", pc |-> "run", arg |-> <<>>,
                 res |-> [task |-> task,
                          mutex |-> [b \in 0..(Len(LockWeights) - 1) |->
                                        Free]]]
    /\ fn = NoFn
    /\ rl = NoReload
    /\ SelIdle
    /\ LeastIdle
    /\ RelayIdle
    /\ DispatchIdle

(* b.mutex.Lock(): returns when no task holds the mutex.                   *)
AcquireMutex ==
    /\ pf.op = "Locks"
    /\ \E t \in Tasks :
           LET tk == pf.res.task[t]
           IN  /\ tk.pc \in LockPcs
               /\ pf.res.mutex[tk.b] = Free
               /\ pf' = [pf EXCEPT !.res.mutex[tk.b] = t,
                                   !.res.task[t].pc = BodyOf[tk.pc]]
    /\ UNCHANGED <<lb, pending, selVars, leastVars, relayVars, dispVars,
                   fn, rl>>

(* Mutant of the path loop: the unhealthy branch continues without         *)
(* b.mutex.Unlock().                                                       *)
PathBodyKeepsLock ==
    /\ pf.op = "Locks"
    /\ \E t \in Tasks :
           LET tk == pf.res.task[t]
           IN  /\ tk.pc = "pathBody"
               /\ IF ~lb.Backends[tk.b].IsHealthy
                  THEN /\ lb' = lb
                       /\ pf' = [pf EXCEPT !.res.task[t].pc = "switch"]
                  ELSE /\ lb' = IncActive(lb, tk.b)
                       /\ pf' = [pf EXCEPT
                              !.res.mutex = Unlock(@, tk.b),
                              !.res.task[t] = [tk EXCEPT !.pc = "switch",
                                                         !.backend = tk.b,
                                                         !.idx = tk.b]]
    /\ UNCHANGED <<pending, selVars, leastVars, relayVars, dispVars, fn, rl>>

(* The path loop after b.mutex.Lock(): an unhealthy backend is unlocked    *)
(* and skipped; a healthy one is counted, unlocked and taken.              *)
PathBody ==
    /\ pf.op = "Locks"
    /\ \E t \in Tasks :
           LET tk == pf.res.task[t]
           IN  /\ tk.pc = "pathBody"
               /\ IF ~lb.Backends[tk.b].IsHealthy
                  THEN /\ lb' = lb
                       /\ pf' = [pf EXCEPT
                              !.res.mutex = Unlock(@, tk.b),
                              !.res.task[t].pc = "switch"]
                  ELSE /\ lb' = IncActive(lb, tk.b)
                       /\ pf' = [pf EXCEPT
                              !.res.mutex = Unlock(@, tk.b),
                              !.res.task[t] = [tk EXCEPT !.pc = "switch",
                                                         !.backend = tk.b,
                                                         !.idx = tk.b]]
    /\ UNCHANGED <<pending, selVars, leastVars, relayVars, dispVars, fn, rl>>

(* switch lb.Algo: the locals of the case are set up; the IP hash case     *)
(* takes its backend without a lock.                                       *)
EnterSwitch ==
    /\ pf.op = "Locks"
    /\ \E t \in Tasks :
           LET tk == pf.res.task[t]
               hashed == CaseIPHash([lb |-> lb, backend |-> tk.backend,
                                     idx |-> tk.idx], ClientAddress)
           IN  /\ tk.pc = "switch"
               /\ pf' = [pf EXCEPT !.res.task[t] =
                      CASE lb.Algo = LeastConnections ->
                               [tk EXCEPT !.pc = "lc", !.b = 0, !.i = 0]
                        [] lb.Algo = IPHash ->
                               [tk EXCEPT !.pc = "count",
                                          !.backend = hashed.backend,
                                          !.idx = hashed.idx]
                        [] lb.Algo = WeightedRoundRobin ->
                               [tk EXCEPT !.pc = "wrr", !.b = 0, !.i = 0,
                                          !.selected = Nil,
                                          !.maxWeight = -1]
                        [] OTHER -> [tk EXCEPT !.pc = "rr", !.attempts = 0]]
    /\ UNCHANGED <<lb, pending, selVars, leastVars, relayVars, dispVars,
                   fn, rl>>

(* The head of the round robin loop: the counter is advanced and the       *)
(* candidate is the one to lock; after len(lb.Backends) attempts the loop  *)
(* ends.                                                                   *)
RoundRobinAttempt ==
    /\ pf.op = "Locks"
    /\ \E t \in Tasks :
           LET tk   == pf.res.task[t]
               next == Int32Inc(lb.Index)
           IN  /\ tk.pc = "rr"
               /\ IF tk.attempts < NumBackends(lb)
                  THEN /\ lb' = [lb EXCEPT !.Index = next]
                       /\ pf' = [pf EXCEPT !.res.task[t] =
                              [tk EXCEPT !.pc = "rrLock",
                                         !.b = GoMod(next, NumBackends(lb))]]
                  ELSE /\ lb' = lb
                       /\ pf' = [pf EXCEPT !.res.task[t].pc = "count"]
    /\ UNCHANGED <<pending, selVars, leastVars, relayVars, dispVars, fn, rl>>

(* healthy := candidate.IsHealthy; candidate.mutex.Unlock(); the healthy   *)
(* candidate is taken, the idx of the function is not assigned.            *)
RoundRobinBody ==
    /\ pf.op = "Locks"
    /\ \E t \in Tasks :
           LET tk == pf.res.task[t]
           IN  /\ tk.pc = "rrBody"
               /\ pf' = [pf EXCEPT
                      !.res.mutex = Unlock(@, tk.b),
                      !.res.task[t] =
                          IF lb.Backends[tk.b].IsHealthy
                          THEN [tk EXCEPT !.pc = "count", !.backend = tk.b]
                          ELSE [tk EXCEPT !.pc = "rr",
                                          !.attempts = @ + 1]]
    /\ UNCHANGED <<lb, pending, selVars, leastVars, relayVars, dispVars,
                   fn, rl>>

(* The least connections scan: one backend's count is read under its       *)
(* mutex, the mutex is unlocked, the minimum is updated.                   *)
LeastBody ==
    /\ pf.op = "Locks"
    /\ \E t \in Tasks :
           LET tk     == pf.res.task[t]
               curr   == lb.Backends[tk.b].ActiveConnections
               lower  == tk.i = 0 \/ curr < tk.minConn
               minIdx == IF tk.i > 0 /\ lower THEN tk.i ELSE tk.minIdx
               seen   == [tk EXCEPT !.minConn = IF lower THEN curr ELSE @,
                                    !.minIdx = minIdx]
           IN  /\ tk.pc = "lcBody"
               /\ pf' = [pf EXCEPT
                      !.res.mutex = Unlock(@, tk.b),
                      !.res.task[t] =
                          IF tk.i + 1 < NumBackends(lb)
                          THEN [seen EXCEPT !.pc = "lc", !.i = tk.i + 1,
                                            !.b = tk.i + 1]
                          ELSE [seen EXCEPT !.pc = "lcInc", !.b = minIdx,
                                            !.backend = minIdx]]
    /\ UNCHANGED <<lb, pending, selVars, leastVars, relayVars, dispVars,
                   fn, rl>>

(* backend.ActiveConnections++ under the chosen backend's mutex.           *)
LeastIncrementBody ==
    /\ pf.op = "Locks"
    /\ \E t \in Tasks :
           LET tk == pf.res.task[t]
           IN  /\ tk.pc = "lcIncBody"
               /\ lb' = IncActive(lb, tk.b)
               /\ pf' = [pf EXCEPT
                      !.res.mutex = Unlock(@, tk.b),
                      !.res.task[t] = [tk EXCEPT !.pc = "count",
                                                 !.idx = tk.minIdx]]
    /\ UNCHANGED <<pending, selVars, leastVars, relayVars, dispVars, fn, rl>>

(* The weighted loop after b.mutex.Lock(): an unhealthy backend is         *)
(* unlocked and skipped; a healthy one gains its weight, may become the    *)
(* selected one, and is unlocked.                                          *)
WeightedBody ==
    /\ pf.op = "Locks"
    /\ \E t \in Tasks :
           LET tk   == pf.res.task[t]
               cw   == lb.Backends[tk.b].CurrentWeight
                       + lb.Backends[tk.b].Weight
               take == lb.Backends[tk.b].IsHealthy /\ cw > tk.maxWeight
               sel  == IF take THEN tk.b ELSE tk.selected
               seen == [tk EXCEPT !.selected = sel,
                                  !.maxWeight = IF take THEN cw ELSE @]
           IN  /\ tk.pc = "wrrBody"
               /\ lb' = IF lb.Backends[tk.b].IsHealthy
                        THEN [lb EXCEPT !.Backends[tk.b].CurrentWeight = cw]
                        ELSE lb
               /\ pf' = [pf EXCEPT
                      !.res.mutex = Unlock(@, tk.b),
                      !.res.task[t] =
                          IF tk.i + 1 < NumBackends(lb)
                          THEN [seen EXCEPT !.pc = "wrr", !.i = tk.i + 1,
                                            !.b = tk.i + 1]
                          ELSE IF sel # Nil
                          THEN [seen EXCEPT !.pc = "wrrSel", !.b = sel]
                          ELSE [seen EXCEPT !.pc = "count"]]
    /\ UNCHANGED <<pending, selVars, leastVars, relayVars, dispVars, fn, rl>>

(* selected.CurrentWeight -= total under the selected backend's mutex.     *)
WeightedReduce ==
    /\ pf.op = "Locks"
    /\ \E t \in Tasks :
           LET tk == pf.res.task[t]
           IN  /\ tk.pc = "wrrSelBody"
               /\ lb' = [lb EXCEPT !.Backends[tk.b].CurrentWeight =
                                       @ - TotalWeight(lb, 0)]
               /\ pf' = [pf EXCEPT
                      !.res.mutex = Unlock(@, tk.b),
                      !.res.task[t] = [tk EXCEPT !.pc = "count",
                                                 !.backend = tk.b,
                                                 !.idx = tk.b]]
    /\ UNCHANGED <<pending, selVars, leastVars, relayVars, dispVars, fn, rl>>

(* The two atomic additions and the return: with no backend the call       *)
(* returns the empty callback and the task ends; otherwise the task goes   *)
(* on to call release.                                                     *)
CountAndReturn ==
    /\ pf.op = "Locks"
    /\ \E t \in Tasks :
           LET tk == pf.res.task[t]
           IN  /\ tk.pc = "count"
               /\ lb' = [lb EXCEPT !.ConnectionCount = Int32Inc(@),
                                   !.BackendCounts[tk.idx] = Int32Inc(@)]
               /\ pf' = [pf EXCEPT !.res.task[t] =
                      IF tk.backend = Nil
                      THEN [tk EXCEPT !.pc = "done"]
                      ELSE [tk EXCEPT !.pc = "returned", !.b = tk.backend]]
    /\ UNCHANGED <<pending, selVars, leastVars, relayVars, dispVars, fn, rl>>

(* release after backend.mutex.Lock(): the count is taken back, the mutex  *)
(* is unlocked, ConnectionCount is decremented.                            *)
ReleaseBody ==
    /\ pf.op = "Locks"
    /\ \E t \in Tasks :
           LET tk == pf.res.task[t]
           IN  /\ tk.pc = "relBody"
               /\ lb' = release(lb, tk.b)
               /\ pf' = [pf EXCEPT !.res.mutex = Unlock(@, tk.b),
                                   !.res.task[t].pc = "done"]
    /\ UNCHANGED <<pending, selVars, leastVars, relayVars, dispVars, fn, rl>>

(* setBackendHealth after backend.mutex.Lock(): the flag is stored and the *)
(* deferred Unlock runs at the return.                                     *)
HealthBody ==
    /\ pf.op = "Locks"
    /\ \E t \in Tasks :
           LET tk == pf.res.task[t]
           IN  /\ tk.pc = "probeBody"
               /\ lb' = setBackendHealth(lb, tk.b, tk.healthy)
               /\ pf' = [pf EXCEPT !.res.mutex = Unlock(@, tk.b),
                                   !.res.task[t].pc = "done"]
    /\ UNCHANGED <<pending, selVars, leastVars, relayVars, dispVars, fn, rl>>

NextLocks ==
    \/ AcquireMutex
    \/ PathBody
    \/ EnterSwitch
    \/ RoundRobinAttempt
    \/ RoundRobinBody
    \/ LeastBody
    \/ LeastIncrementBody
    \/ WeightedBody
    \/ WeightedReduce
    \/ CountAndReturn
    \/ ReleaseBody
    \/ HealthBody

SpecLocks == InitLocks /\ [][NextLocks]_vars

(* ------------------------------ claims -------------------------------- *)
Windows(seq, n) == {i \in 1..Len(seq) : i + n - 1 <= Len(seq)}
Count(seq, i, n, b) == Cardinality({j \in i..(i + n - 1) : seq[j] = b})

(* C1: under round robin with N backends that are all healthy and whose    *)
(* health does not change, any N consecutive sequential GetNextBackend     *)
(* calls return each of the N backends exactly once.                       *)
C1_RoundRobinCycle ==
    (lb.Algo = RoundRobin /\ HealthySet(lb) = DOMAIN lb.Backends) =>
        \A i \in Windows(picks, NumBackends(lb)) :
            \A b \in DOMAIN lb.Backends :
                Count(picks, i, NumBackends(lb), b) = 1

C1_Witness ==
    /\ lb.Algo = RoundRobin
    /\ NumBackends(lb) = 3
    /\ HealthySet(lb) = DOMAIN lb.Backends
    /\ Len(picks) = NumBackends(lb)

(* C2: round robin and weighted round robin never return a backend whose   *)
(* health flag was false when the selection read it; with fixed health     *)
(* flags an unhealthy backend is never returned; when every backend is     *)
(* unhealthy the call returns a nil backend, index -1 and a no-op release. *)
C2_NeverUnhealthy ==
    /\ (last.made /\ last.algo \in {RoundRobin, WeightedRoundRobin}) =>
           /\ last.backend # Nil => last.backend \in last.healthy
           /\ last.healthy = {} =>
                  last.backend = Nil /\ last.idx = -1 /\ last.noop
    /\ lb.Algo \in {RoundRobin, WeightedRoundRobin} =>
           \A j \in 1..Len(picks) :
               picks[j] # Nil => picks[j] \in HealthySet(lb)

C2_Witness ==
    /\ last.made
    /\ last.algo \in {RoundRobin, WeightedRoundRobin}
    /\ last.healthy # {}
    /\ last.healthy # DOMAIN lb.Backends
    /\ last.backend \in last.healthy
    /\ Len(picks) >= 2

C2_WitnessAllUnhealthy ==
    /\ last.made
    /\ last.algo \in {RoundRobin, WeightedRoundRobin}
    /\ last.healthy = {}
    /\ last.backend = Nil

(* C3: weighted round robin over two healthy backends with static weights  *)
(* 3 and 1, from zero current weights and called sequentially, picks the   *)
(* weight-3 backend exactly 3 times and the weight-1 backend exactly once  *)
(* in every window of 4 consecutive selections, and never the same backend *)
(* four times in a row.                                                    *)
Heavy(l) == CHOOSE b \in DOMAIN l.Backends : l.Backends[b].Weight = 3
Light(l) == CHOOSE b \in DOMAIN l.Backends : l.Backends[b].Weight = 1

C3_WeightedWindow ==
    (lb.Algo = WeightedRoundRobin /\ healthGen = 0) =>
        \A i \in Windows(picks, 4) :
            /\ Count(picks, i, 4, Heavy(lb)) = 3
            /\ Count(picks, i, 4, Light(lb)) = 1
            /\ \E j \in i..(i + 3) : picks[j] # picks[i]

C3_Witness ==
    /\ lb.Algo = WeightedRoundRobin
    /\ healthGen = 0
    /\ Len(picks) = 7
    /\ Heavy(lb) = 1

(* C4: IP-hash selection is deterministic: for a fixed backend count, any  *)
(* two GetNextBackend calls whose client addresses have the same host part *)
(* (whatever their ports, the backends' health, the counters or the        *)
(* rotation index) return the same backend index.                          *)
C4_IPHashDeterministic ==
    \A h \in ClientHosts : Cardinality(hashSeen[h].idx) <= 1

C4_Witness ==
    /\ lb.Algo = IPHash
    /\ NumBackends(lb) = 2
    /\ \E h \in ClientHosts : hashSeen[h].ports = ClientPorts
    /\ \E g, h \in ClientHosts :
           hashSeen[g].idx # {} /\ hashSeen[h].idx # {}
               /\ hashSeen[g].idx # hashSeen[h].idx
    /\ HealthySet(lb) # DOMAIN lb.Backends

(* C5: a sequential least-connections selection returns the lowest-index   *)
(* backend among those with the minimum ActiveConnections, increments that *)
(* backend's ActiveConnections by exactly 1 and leaves every other         *)
(* backend's ActiveConnections unchanged.                                  *)
FirstMinimum(active) ==
    CHOOSE b \in DOMAIN active :
        /\ \A j \in DOMAIN active : active[b] <= active[j]
        /\ \A j \in DOMAIN active : j < b => active[j] > active[b]

C5_LeastConnectionsStep ==
    (calls' = calls + 1 /\ lb.Algo = LeastConnections) =>
        /\ last'.backend = FirstMinimum(ActiveOf(lb))
        /\ \A j \in DOMAIN lb.Backends :
               lb'.Backends[j].ActiveConnections =
                   lb.Backends[j].ActiveConnections
                       + (IF j = last'.backend THEN 1 ELSE 0)

C5_LeastConnections == [][C5_LeastConnectionsStep]_vars

C5_Witness ==
    /\ last.made
    /\ last.algo = LeastConnections
    /\ NumBackends(lb) = 3
    /\ calls = 3
    /\ pending[0] = 1 /\ pending[1] = 1 /\ pending[2] = 0
    /\ ActiveOf(lb) = Slice(<<1, 1, 0>>)
    /\ last.backend = 1

Dispatched(c) == conn[c].st \in {"relaying", "done"}
(* C7: for every dispatched connection the release callback's accounting   *)
(* is applied at most once while the relays run and exactly once when both *)
(* relays have finished, whichever relay finishes first: the global        *)
(* ConnectionCount is the number of counted selections minus one per       *)
(* released connection, and each backend's ActiveConnections is its        *)
(* increments minus one per released connection.                           *)
C7_ReleaseOnce ==
    /\ \A c \in DOMAIN conn :
           Dispatched(c) =>
               /\ conn[c].rel <= 1
               /\ (conn[c].st = "done" => conn[c].rel = 1)
    /\ lb.ConnectionCount =
           Cardinality({c \in DOMAIN conn : conn[c].counted})
           - Cardinality({c \in DOMAIN conn : conn[c].rel >= 1})
    /\ \A b \in DOMAIN lb.Backends :
           lb.Backends[b].ActiveConnections =
               (IF lb.Algo = LeastConnections
                THEN Cardinality({c \in DOMAIN conn : conn[c].backend = b})
                ELSE 0)
               - Cardinality({c \in DOMAIN conn :
                                 conn[c].backend = b /\ conn[c].rel >= 1})

C7_Witness ==
    /\ build = "part_003"
    /\ \E c \in DOMAIN conn :
           /\ conn[c].st = "done"
           /\ conn[c].up = "done"
           /\ conn[c].down = "done"
           /\ conn[c].rel = 1

C7_WitnessMain ==
    /\ build = "main"
    /\ \E c \in DOMAIN conn :
           /\ conn[c].st = "done"
           /\ conn[c].up = "done"
           /\ conn[c].down = "done"
           /\ conn[c].rel = 1

(* C8: a client accepted when the global connection count equals           *)
(* max_connections is rejected, closed without a backend selection or a    *)
(* dial; a client accepted when the count is below the maximum, as after   *)
(* one release, is admitted.                                               *)
C8_AdmissionControl ==
    \A c \in DOMAIN conn :
        conn[c].st # "accepted" =>
            /\ (conn[c].seen = config.MaxConnections =>
                    /\ conn[c].st = "rejected"
                    /\ conn[c].closed
                    /\ ~conn[c].counted
                    /\ conn[c].backend = Nil)
            /\ (conn[c].seen < config.MaxConnections =>
                    conn[c].st # "rejected")

(* C9: the number of client connections dialed to a backend and not yet    *)
(* terminated never exceeds max_connections.                               *)
C9_AtMostMaxDialed ==
    Cardinality({c \in DOMAIN conn : conn[c].st = "relaying"})
        <= config.MaxConnections

(* C10: when the source delivers bytes and then a clean EOF, every byte    *)
(* read from the source has been written to the destination when the       *)
(* destination's write side is half-closed, nothing is written after the   *)
(* half-close, and the half-close shuts down the write side only: the      *)
(* destination is not closed.                                              *)
C10_HalfCloseOrdering ==
    (relay.dst.writeClosed /\ relay.err = "EOF") =>
        /\ relay.dst.data = relay.read
        /\ relay.finAt = Len(relay.dst.data)
        /\ ~relay.dst.closed

C10_Witness ==
    /\ relay.kind = "Proxy"
    /\ relay.dst.writeClosed
    /\ relay.err = "EOF"
    /\ relay.read = <<1, 2, 3>>
    /\ relay.dst.data = <<1, 2, 3>>

C10_WitnessCopyFunc ==
    /\ relay.kind = "copyFunc"
    /\ relay.dst.writeClosed
    /\ relay.err = "EOF"
    /\ relay.read = <<2, 3, 1>>

(* C11: a failed probe of a backend leaves its health flag false and its   *)
(* failure counter unchanged; a successful probe leaves its flag true and  *)
(* its failure counter 0; a round-robin or weighted-round-robin selection  *)
(* returns only a backend whose flag is true, and returns one whenever a   *)
(* backend's flag is true, so a backend probed healthy again is eligible.  *)
C11_HealthStep ==
    /\ healthGen' = healthGen + 1 =>
           LET i == probed'.index
           IN  /\ lb'.Backends[i].IsHealthy = probed'.healthy
               /\ probed'.healthy => lb'.BackendFails[i] = 0
               /\ ~probed'.healthy => lb'.BackendFails[i] = lb.BackendFails[i]
    /\ (acc.pc = "select" /\ acc'.pc # "select"
        /\ lb.Algo \in {RoundRobin, WeightedRoundRobin}) =>
           /\ acc'.pc = "dial" => acc'.backend \in HealthySet(lb)
           /\ HealthySet(lb) # {} => acc'.pc = "dial"

C11_HealthMonitor == [][C11_HealthStep]_vars

C11_Witness ==
    /\ probed.healthy
    /\ ~probed.was
    /\ probed.failsBefore = 1
    /\ lb.BackendFails[probed.index] = 0
    /\ lb.Algo = RoundRobin
    /\ acc.pc = "dial"
    /\ acc.backend = probed.index

C11_WitnessExcluded ==
    /\ ~probed.healthy
    /\ probed.was
    /\ probed.failsBefore = 1
    /\ lb.BackendFails[probed.index] = 1
    /\ lb.Algo = WeightedRoundRobin
    /\ acc.pc = "dial"
    /\ acc.backend # probed.index

(* C12: once the shutting-down flag is set, the accept loop starts no      *)
(* backend selection and no backend dial.                                  *)
C12_NoDispatchStep ==
    shuttingDown =>
        /\ ~(acc.pc = "select" /\ acc'.pc # "select")
        /\ ~(acc.pc = "dial" /\ acc'.pc # "dial")

C12_NoDispatchAfterSignal == [][C12_NoDispatchStep]_vars

Quiescent ==
    /\ sd = "wait"
    /\ acc.pc = "stopped"
    /\ \A c \in DOMAIN conn :
           conn[c].st = "relaying" =>
               /\ conn[c].up = "run" => ~conn[c].closed
               /\ conn[c].down = "run" => ~conn[c].bclosed
               /\ conn[c].up = "run" \/ conn[c].down = "run"

(* C14: after the signal every tracked connection is closed and the        *)
(* shutdown wait returns without any peer closing on its own: when         *)
(* nothing but a voluntary close can move, the counter of the WaitGroup is *)
(* zero and no tracked connection is open.                                 *)
C14_DrainCompletes ==
    Quiescent =>
        /\ wg = 0
        /\ \A c \in DOMAIN conn :
               /\ <<"client", c>> \in tracked => conn[c].closed
               /\ <<"backend", c>> \in tracked => conn[c].bclosed

(* C15: a GetNextBackend call that returns a backend has added 1 to the    *)
(* global ConnectionCount and 1 to the served counter of the returned      *)
(* backend, and the index it returns is that backend's position.           *)
C15_CountsAndIndex ==
    (fn.pc = "returned" /\ fn.backend # Nil) =>
        /\ lb.ConnectionCount = fn.before.ConnectionCount + 1
        /\ fn.idx = fn.backend
        /\ lb.BackendCounts[fn.backend]
               = fn.before.BackendCounts[fn.backend] + 1

(* C16: with no path match, a successful GetNextBackend followed by one    *)
(* call of its release callback leaves the chosen backend's                *)
(* ActiveConnections and the global ConnectionCount as they were before    *)
(* the selection.                                                          *)
C16_ReleaseRestores ==
    (fn.pc = "released" /\ fn.backend # Nil /\ fn.route = NoRoute) =>
        /\ lb.ConnectionCount = fn.before.ConnectionCount
        /\ lb.Backends[fn.backend].ActiveConnections
               = fn.before.Backends[fn.backend].ActiveConnections

(* C17: when the path has as a prefix a path routed to a healthy backend,  *)
(* GetNextBackend returns that backend under every algorithm.              *)
C17_PathOverride ==
    (fn.pc = "returned" /\ fn.route # NoRoute) => fn.backend = fn.route

(* C18: when the dial to the selected backend fails, that backend's        *)
(* failure counter and the failure metric are incremented, the release     *)
(* callback runs exactly once, taking 1 off ConnectionCount, the client    *)
(* connection is closed and no relay is started.                           *)
C18_DialFailureStep ==
    (acc.pc = "dial" /\ conn'[acc.client].st = "dialfail") =>
        /\ lb'.BackendFails[acc.backend] = lb.BackendFails[acc.backend] + 1
        /\ metrics'.Fails = metrics.Fails + 1
        /\ conn'[acc.client].rel = 1
        /\ lb'.ConnectionCount = lb.ConnectionCount - 1
        /\ conn'[acc.client].closed
        /\ conn'[acc.client].up = "none"
        /\ conn'[acc.client].down = "none"

C18_DialFailure == [][C18_DialFailureStep]_vars

(* C19: a reload that no GetNextBackend call overlaps reconciles the       *)
(* backend list by address: the registry holds exactly the addresses of    *)
(* the new list; a backend whose address was in the old list keeps its     *)
(* health flag, active count, served counter and failure counter; a new    *)
(* address is healthy with zero counters.                                  *)
C19_ReconcileStep ==
    (rl.pc = "fails" /\ rl'.pc = "done" /\ ~rl.disturbed) =>
        LET old == rl.old
            new == lb'
        IN  /\ [i \in DOMAIN new.Backends |-> new.Backends[i].Address]
                   = [i \in 0..(Len(rl.cfg.Backends) - 1) |->
                         rl.cfg.Backends[i + 1]]
            /\ \A i \in DOMAIN new.Backends :
                   LET a == new.Backends[i].Address
                   IN  IF a \in AddressesOf(old.Backends)
                       THEN LET j == PositionOf(old.Backends, a)
                            IN  /\ new.Backends[i].IsHealthy
                                       = old.Backends[j].IsHealthy
                                /\ new.Backends[i].ActiveConnections
                                       = old.Backends[j].ActiveConnections
                                /\ new.BackendCounts[i] = old.BackendCounts[j]
                                /\ new.BackendFails[i] = old.BackendFails[j]
                       ELSE /\ new.Backends[i].IsHealthy
                            /\ new.Backends[i].ActiveConnections = 0
                            /\ new.BackendCounts[i] = 0
                            /\ new.BackendFails[i] = 0

C19_Reconcile == [][C19_ReconcileStep]_vars

(* C20: a GetNextBackend call that runs while ReloadConfig runs sees the   *)
(* algorithm, the backend list and the counter arrays either all as they   *)
(* were before the reload or all as they are after it, and never indexes   *)
(* BackendCounts outside its bounds.                                       *)
C20_ReloadAtomic ==
    /\ fn.pc # "panicked"
    /\ (fn.pc = "selected" /\ rl.pc \notin {"idle", "failed"}) =>
           fn.before \in {Observed(rl.old),
                          Observed(ReloadConfig(rl.old, rl.cfg))}

(* C21: ParseAlgorithm returns least connections, IP hash and weighted     *)
(* round robin for "least_conn", "ip_hash" and "w_round_robin" written in  *)
(* any mix of upper and lower case, and round robin for "round_robin" in   *)
(* any case and for every other name, the empty string included.           *)
FoldByte(b) == IF b \in 97..122 THEN b - 32 ELSE b
EqualFold(a, b) ==
    /\ Len(a) = Len(b)
    /\ \A i \in 1..Len(a) : FoldByte(a[i]) = FoldByte(b[i])

C21_ParseAlgorithm ==
    (pf.op = "ParseAlgorithm" /\ pf.pc = "returned") =>
        pf.res = IF EqualFold(pf.arg, NameLeastConn) THEN LeastConnections
                 ELSE IF EqualFold(pf.arg, NameIPHash) THEN IPHash
                 ELSE IF EqualFold(pf.arg, NameWRoundRobin)
                 THEN WeightedRoundRobin
                 ELSE RoundRobin

C21_Witness ==
    /\ pf.op = "ParseAlgorithm"
    /\ pf.pc = "returned"
    /\ pf.arg = <<73, 112, 95, 72, 65, 83, 72>>       \* "Ip_HASH"
    /\ pf.res = IPHash

C21_WitnessEmpty ==
    /\ pf.op = "ParseAlgorithm"
    /\ pf.pc = "returned"
    /\ pf.arg = <<>>
    /\ pf.res = RoundRobin

(* C22: Proxy calls its release hook exactly once on every way out: a      *)
(* clean EOF, a read error other than EOF and a write error, whether the   *)
(* source and the destination are TCP connections or not; and not before   *)
(* it is on its way out.                                                   *)
C22_ReleaseOnEveryExit ==
    relay.kind = "Proxy" =>
        /\ relay.pc \in {"done", "panicked"} => relay.released = 1
        /\ relay.pc \in {"read", "write", "check"} => relay.released = 0

C22_Witness ==
    /\ relay.kind = "Proxy"
    /\ relay.pc = "done"
    /\ relay.srcOK /\ ~relay.dstOK
    /\ relay.err = "EOF"
    /\ relay.released = 1

C22_WitnessReadError ==
    /\ relay.kind = "Proxy"
    /\ relay.pc = "done"
    /\ relay.srcOK /\ relay.dstOK
    /\ relay.err = "error"
    /\ relay.released = 1

C22_WitnessWriteError ==
    /\ relay.kind = "Proxy"
    /\ relay.pc = "done"
    /\ relay.err = "nil"
    /\ relay.stream # <<>>
    /\ relay.released = 1

C22_WitnessNotTCP ==
    /\ relay.kind = "Proxy"
    /\ relay.pc = "panicked"
    /\ ~relay.srcOK
    /\ relay.released = 1

(* C23: a relay direction that has ended on a write error or on a read     *)
(* error other than EOF has counted exactly one backend failure; one that  *)
(* has ended on a clean EOF has counted none and has half-closed the       *)
(* destination.                                                            *)
C23_FailureCounted ==
    relay.pc = "done" =>
        /\ relay.err \in {"error", "nil"} => relay.fails = 1
        /\ relay.err = "EOF" => relay.fails = 0 /\ relay.dst.writeClosed

(* The part of C23 that Proxy satisfies between two TCP connections.       *)
C23_ProxyBetweenTCP ==
    (relay.kind = "Proxy" /\ relay.srcOK /\ relay.dstOK) => C23_FailureCounted

(* C24: a GetNextBackend call under round robin advances the rotation      *)
(* counter lb.Index by exactly 1, whether it returns a backend at once,    *)
(* after skipping unhealthy backends, or returns none.                     *)
C24_IndexAdvancedOnce ==
    (fn.pc = "returned" /\ fn.before.Algo = RoundRobin) =>
        lb.Index = Int32Inc(fn.before.Index)

(* The part of C24 the loop satisfies: one advance per attempt, so one per *)
(* call when the first candidate is healthy.                               *)
C24_OncePerAttempt ==
    (fn.pc = "returned" /\ fn.before.Algo = RoundRobin
     /\ fn.before.Backends[GoMod(Int32Inc(fn.before.Index),
                                 NumBackends(fn.before))].IsHealthy) =>
        lb.Index = Int32Inc(fn.before.Index)

(* C25: every accepted connection moves only along ACCEPTED -> TERMINATED  *)
(* (refused, over capacity, no backend) or ACCEPTED -> SELECTED ->         *)
(* TERMINATED (dial failed) or ACCEPTED -> SELECTED -> RELAYING ->         *)
(* TERMINATED: a dial is made only for a connection that has a selected    *)
(* backend, a relay starts only after the dial of a selected backend, and  *)
(* a connection that is turned away is closed, is not in the tracked set   *)
(* and has no relay.                                                       *)
TurnedAway == {"refused", "rejected", "nobackend", "dialfail"}
Transitions ==
    {<<"accepted", "refused">>, <<"accepted", "rejected">>,
     <<"accepted", "admitted">>, <<"admitted", "nobackend">>,
     <<"admitted", "selected">>, <<"selected", "dialfail">>,
     <<"selected", "relaying">>, <<"relaying", "done">>}

C25_ConnectionStep ==
    \A c \in DOMAIN conn' :
        IF c \notin DOMAIN conn
        THEN conn'[c].st = "accepted"
        ELSE conn'[c].st # conn[c].st =>
               /\ <<conn[c].st, conn'[c].st>> \in Transitions
               /\ conn'[c].st \in {"dialfail", "relaying"} =>
                      /\ conn[c].backend # Nil
                      /\ acc.pc = "dial" /\ acc.client = c
               /\ conn'[c].st = "relaying" =>
                      conn'[c].up = "run" /\ conn'[c].down = "run"
               /\ conn'[c].st \in TurnedAway =>
                      /\ conn'[c].closed
                      /\ <<"client", c>> \notin tracked'
                      /\ conn'[c].up = "none" /\ conn'[c].down = "none"

C25_ConnectionLifecycle == [][C25_ConnectionStep]_vars

C25_Witness ==
    /\ build = "main"
    /\ \E c \in DOMAIN conn :
           /\ conn[c].st = "dialfail"
           /\ conn[c].closed
           /\ <<"client", c>> \notin tracked
    /\ \E c \in DOMAIN conn : conn[c].st = "done"

C25_WitnessRefused ==
    /\ build = "main"
    /\ \E c \in DOMAIN conn : conn[c].st = "refused" /\ conn[c].closed

(* C26: turning a client away because ConnectionCount has reached          *)
(* max_connections changes no dispatch state: ConnectionCount, the         *)
(* rotation index, every backend's ActiveConnections and CurrentWeight and *)
(* the served and failed counters are as before the accept, the metrics    *)
(* and the WaitGroup too, and no backend is selected or dialed for it.     *)
C26_RejectionStep ==
    (acc.pc = "check" /\ conn'[acc.client].st = "rejected") =>
        /\ lb.ConnectionCount >= config.MaxConnections
        /\ lb' = lb
        /\ metrics' = metrics
        /\ wg' = wg
        /\ conn'[acc.client].backend = Nil
        /\ conn'[acc.client].up = "none" /\ conn'[acc.client].down = "none"
        /\ conn'[acc.client].closed
        /\ acc'.pc = "accept"

C26_RejectionFrame == [][C26_RejectionStep]_vars

C26_Witness ==
    /\ build = "part_003"
    /\ \E c \in DOMAIN conn :
           /\ conn[c].st = "rejected"
           /\ conn[c].seen = config.MaxConnections
           /\ conn[c].backend = Nil
    /\ lb.ConnectionCount > 0

(* C27: once the health monitor runs, the interval it sleeps between two   *)
(* probe rounds is strictly positive, also when health_check_freq is 0,    *)
(* and every probe dials with a strictly positive timeout, also when       *)
(* timeout_seconds is 0.                                                   *)
C27_PositiveIntervalAndTimeout ==
    (pf.op = "StartHealthChecks" /\ pf.pc # "start") =>
        /\ pf.res.freq > 0
        /\ pf.res.rounds > 0 => pf.res.timeout > 0

(* The part of C27 the code satisfies: configured values above zero are    *)
(* used as they are.                                                       *)
C27_ConfiguredValuesUsed ==
    (pf.op = "StartHealthChecks" /\ pf.pc # "start") =>
        /\ pf.res.freq = pf.arg.HealthCheckFreq * Second
        /\ pf.res.rounds > 0 => pf.res.timeout = pf.arg.TimeoutSeconds * Second

(* C28: whatever GetNextBackend calls and release calls have been made,    *)
(* each returned release at most once, every backend's ActiveConnections   *)
(* is at least 0 and ConnectionCount is at least 0, under every algorithm. *)
C28_CountsNeverNegative ==
    /\ \A b \in DOMAIN lb.Backends : lb.Backends[b].ActiveConnections >= 0
    /\ lb.ConnectionCount >= 0

(* The part of C28 that holds: ConnectionCount under every algorithm, and  *)
(* ActiveConnections under least connections, the one algorithm that       *)
(* increments it.                                                          *)
C28_NeverNegativeWhereCounted ==
    /\ lb.ConnectionCount >= 0
    /\ lb.Algo = LeastConnections =>
           \A b \in DOMAIN lb.Backends : lb.Backends[b].ActiveConnections >= 0

(* C29: a GetNextBackend call that returns no backend leaves               *)
(* ConnectionCount and every served counter as they were, and once every   *)
(* returned release has been called ConnectionCount is 0 again.            *)
C29_FailedSelectionFrame ==
    /\ (fn.pc = "returned" /\ fn.backend = Nil) =>
           /\ lb.ConnectionCount = fn.before.ConnectionCount
           /\ lb.BackendCounts = fn.before.BackendCounts
    /\ fn.pc = "released" => lb.ConnectionCount = 0

(* The part of C29 that holds: calls that return a backend are undone by   *)
(* their release, so ConnectionCount counts the failed calls.              *)
C29_SuccessfulCallsUndone ==
    (fn.pc = "released" /\ fn.backend # Nil) =>
        lb.ConnectionCount = fn.before.ConnectionCount

(* C30: the index round robin computes from the rotation counter is in     *)
(* 0..N-1 for every value of the 32-bit counter, also after the counter    *)
(* has wrapped from MaxInt32 to MinInt32, so indexing lb.Backends with it  *)
(* never fails.                                                            *)
C30_IndexInRange ==
    pf.op = "RoundRobin" =>
        /\ pf.pc # "panicked"
        /\ pf.res.idx \in 0..(NumBackends(lb) - 1)

(* The part of C30 that holds: while the advanced counter is not negative  *)
(* the index is in range.                                                  *)
C30_InRangeWhileNonNegative ==
    (pf.op = "RoundRobin" /\ pf.res.attempts > 0 /\ lb.Index >= 0) =>
        /\ pf.pc # "panicked"
        /\ pf.res.idx \in 0..(NumBackends(lb) - 1)

(* C31: with constant health flags, a round robin call that runs           *)
(* concurrently with other round robin calls returns no backend only when  *)
(* every backend is unhealthy.                                             *)
C31_ConcurrentFindsHealthy ==
    pf.op = "Concurrent" =>
        \A c \in Callers :
            (pf.res[c].pc = "returned" /\ pf.res[c].backend = Nil) =>
                HealthySet(lb) = {}

(* The part of C31 that holds: a call whose attempts no other call         *)
(* interleaves with finds a healthy backend when there is one, and a       *)
(* returned backend is healthy.                                            *)
C31_AloneFindsHealthy ==
    pf.op = "Concurrent" =>
        \A c \in Callers :
            pf.res[c].pc = "returned" =>
                /\ pf.res[c].backend # Nil =>
                       pf.res[c].backend \in HealthySet(lb)
                /\ (pf.res[c].backend = Nil
                    /\ \A d \in Callers \ {c} : pf.res[d].attempts = 0) =>
                       HealthySet(lb) = {}

(* C32: under weighted round robin with positive weights, after any        *)
(* sequence of selections and health changes, a selection made while some  *)
(* backend is healthy returns a healthy backend.                           *)
C32_WeightedReturnsHealthy ==
    (/\ last.made
     /\ last.algo = WeightedRoundRobin
     /\ \A i \in 0..(NumBackends(lb) - 1) : lb.Backends[i].Weight > 0
     /\ last.healthy # {}) =>
        last.backend \in last.healthy

(* The part of C32 that holds: a backend returned by a weighted selection  *)
(* was healthy when it was selected.                                       *)
C32_WeightedNeverUnhealthy ==
    (last.made /\ last.algo = WeightedRoundRobin /\ last.backend # Nil) =>
        last.backend \in last.healthy

(* C33: after GetNextBackend with a matching path followed by one call of  *)
(* the returned release callback, every backend's ActiveConnections equals *)
(* its value before the selection.                                         *)
C33_PathIncrementUndone ==
    (fn.pc = "released" /\ fn.route # NoRoute) =>
        ActiveOf(lb) = ActiveOf(fn.before)

(* The part of C33 that holds: the release callback of a call with a       *)
(* matching path takes exactly 1 off the returned backend; the path loop   *)
(* added 1 to the routed backend and the least connections case added 1    *)
(* to the backend it chose.                                                *)
C33_RoutedIncrementStays ==
    (fn.pc = "released" /\ fn.route # NoRoute /\ fn.backend # Nil) =>
        \A i \in 0..(NumBackends(lb) - 1) :
            lb.Backends[i].ActiveConnections
                = fn.before.Backends[i].ActiveConnections
                  + (IF i = fn.route THEN 1 ELSE 0)
                  + (IF i = fn.backend /\ lb.Algo = LeastConnections
                     THEN 1 ELSE 0)
                  - (IF i = fn.backend THEN 1 ELSE 0)

(* C34: the active connections gauge is incremented once and decremented   *)
(* once per accepted connection on every path, so whenever no accepted     *)
(* connection is in flight the gauge is 0.                                 *)
InFlight(c) == conn[c].st \in {"accepted", "admitted", "selected", "relaying"}

C34_GaugeBalanced ==
    (\A c \in DOMAIN conn : ~InFlight(c)) => metrics.ActiveConns = 0

(* The part of C34 that holds: with no connection in flight the gauge is   *)
(* the number of connections main.go turned away after counting them (no   *)
(* backend, dial failure); the other accept loop, which counts after the   *)
(* dial, is balanced.                                                      *)
C34_GaugeCountsTurnedAway ==
    (\A c \in DOMAIN conn : ~InFlight(c)) =>
        metrics.ActiveConns =
            IF build = "main"
            THEN Cardinality({c \in DOMAIN conn :
                                 conn[c].st \in {"nobackend", "dialfail"}})
            ELSE 0

(* C36: when LoadConfig fails, ReloadConfig returns and leaves the         *)
(* algorithm, the config, the backend list and the served and failed       *)
(* counter arrays of the load balancer as they were: the failing step      *)
(* changes nothing of them, and no step of the reload follows it.          *)
C36_LoadFailureStep ==
    /\ (rl.pc = "idle" /\ rl'.pc = "failed") =>
           /\ lb' = lb
           /\ config' = config
           /\ rl'.old = lb
    /\ rl.pc = "failed" =>
           /\ rl' = rl
           /\ config' = config
           /\ Observed(lb') = Observed(rl.old)
           /\ \A i \in DOMAIN lb.Backends :
                  lb'.Backends[i].IsHealthy = rl.old.Backends[i].IsHealthy
           /\ lb'.BackendFails = rl.old.BackendFails
           /\ \A i \in DOMAIN lb.BackendCounts :
                  lb'.BackendCounts[i] >= lb.BackendCounts[i]

C36_LoadFailure == [][C36_LoadFailureStep]_vars

C36_Witness ==
    /\ rl.pc = "failed"
    /\ lb.Algo # RoundRobin
    /\ NumBackends(lb) = 2
    /\ \E i \in DOMAIN lb.BackendCounts : lb.BackendCounts[i] > 0
    /\ lb = rl.old

(* C35: no task holds more than one backend mutex at a time, every path    *)
(* through GetNextBackend, the release callback and setBackendHealth       *)
(* unlocks the mutex it locked, and no interleaving deadlocks: while a     *)
(* task is unfinished, some unfinished task is not waiting for a mutex     *)
(* that is held.                                                           *)
C35_NoDeadlock ==
    pf.op = "Locks" =>
        /\ \A t \in Tasks :
               /\ Cardinality(HeldBy(t)) <= 1
               /\ HeldBy(t) = IF pf.res.task[t].pc \in BodyPcs
                              THEN {pf.res.task[t].b} ELSE {}
        /\ (\E t \in Tasks : pf.res.task[t].pc # "done") =>
               \E t \in Tasks : pf.res.task[t].pc # "done" /\ ~Blocked(t)

(* A task waits at Lock for a mutex another task holds, and a finished     *)
(* task has left both mutexes free.                                        *)
C35_Witness ==
    /\ pf.op = "Locks"
    /\ \E t, u \in Tasks :
           /\ t # u
           /\ Blocked(t)
           /\ pf.res.mutex[pf.res.task[t].b] = u
           /\ pf.res.task[t].kind = "select"
           /\ pf.res.task[u].kind = "probe"

C35_WitnessAllDone ==
    /\ pf.op = "Locks"
    /\ \A t \in Tasks : pf.res.task[t].pc = "done"
    /\ \A b \in DOMAIN pf.res.mutex : pf.res.mutex[b] = Free
    /\ \E t \in Tasks : pf.res.task[t].backend # Nil

=============================================================================
